---------------------------- MODULE Spec2Model ----------------------------
(***************************************************************************)
(* Discussion portal: thread metadata in PostgreSQL, thread content in     *)
(* MongoDB (Mongoose).  The model follows the request handlers of          *)
(* threadController.js and commentController.js.  Every handler is an      *)
(* async function; one action is the piece of a handler that runs from one *)
(* awaited store call (with its effect on the store) up to the next await  *)
(* or the response.  A handler invocation occupies one slot of pc / loc    *)
(* and keeps its response there after it ended.                            *)
(*                                                                         *)
(* Store semantics assumed from the libraries the code calls:              *)
(*  - pg: statements of one client between BEGIN and COMMIT are invisible  *)
(*    to pool.query until COMMIT succeeded; a failed COMMIT or ROLLBACK    *)
(*    leaves the transaction aborted.                                      *)
(*  - Mongoose document.save() sends the delta of the modified paths:      *)
(*    array.push -> $push, array.splice -> $set of the whole array,        *)
(*    scalar assignment -> $set of the locally computed value.  The        *)
(*    version key __v is put in the filter when a path under an array      *)
(*    index is written or a whole array is $set, and is incremented when   *)
(*    an array is pushed to or $set.                                       *)
(*  - Model.findOneAndUpdate / Model.create / Model.deleteOne are single   *)
(*    atomic document operations and do not touch __v.                     *)
(***************************************************************************)
EXTENDS Integers, Sequences, FiniteSets, TLC

VARIABLES
    threads,        \* committed rows of table threads: id -> row
    posts,          \* collection posts: sequence of documents, natural order
    nextThreadId,   \* gen_random_uuid() of threads.id, as a fresh number
    nextPostId,     \* ObjectId of the next Post document
    nextCommentId,  \* ObjectId of the next embedded comment
    users,          \* rows of table users: id -> row
    activity,       \* collection activitylogs: sequence of documents
    pc,             \* slot -> position of the handler invocation in the slot
    loc             \* slot -> request and local variables of the invocation

vars == <<threads, posts, nextThreadId, nextPostId, nextCommentId,
          users, activity, pc, loc>>
store == <<threads, posts, nextThreadId, nextPostId, nextCommentId,
           users, activity>>

----------------------------------------------------------------------------
(* Bounds: the number of handler invocations of each scenario.             *)
NSaga == 2
NVote == 4
NComment == 3
NSeq == 4

----------------------------------------------------------------------------
(* Requests.                                                               *)
Users == {"alice", "bob"}
Moderators == {"mod"}
Admins == {"root"}
Actors == Users \cup Moderators
Everyone == Actors \cup Admins

\* req.user.role, set by authenticate from the users row
Role(u) ==
    IF u \in Admins THEN "admin"
    ELSE IF u \in Moderators THEN "moderator" ELSE "user"

\* rows of table users: nobody is banned
\* bans: the rows of table user_bans for the user, as a count
UserRows == [u \in Everyone |-> [is_banned |-> FALSE, bans |-> 0]]

\* rows of table categories: id -> status
Categories == [general |-> "active", archive |-> "archived"]

\* req.body.categoryId: the id of a row, or an id no row has
CategoryIds == DOMAIN Categories \cup {"missing"}

NoId == 0
SeedThread == 1

Deleted == "[deleted]"

----------------------------------------------------------------------------
(* Sequence helpers (Array.prototype).                                     *)

\* Array.prototype.indexOf, 1-based; 0 when absent (-1 in JavaScript)
IndexOf(s, x) ==
    IF \E i \in 1..Len(s) : s[i] = x
    THEN CHOOSE i \in 1..Len(s) : s[i] = x /\ \A j \in 1..(i-1) : s[j] # x
    ELSE 0

\* Array.prototype.splice(idx, 1)
Splice(s, i) == [j \in 1..(Len(s) - 1) |-> IF j < i THEN s[j] ELSE s[j + 1]]

Includes(s, x) == \E i \in 1..Len(s) : s[i] = x

Max(a, b) == IF a >= b THEN a ELSE b

----------------------------------------------------------------------------
(* Documents and rows.                                                     *)

\* threads row as INSERTed by createThread: column defaults of the table
NewThreadRow(author) ==
    [author_id |-> author, is_pinned |-> FALSE, is_locked |-> FALSE,
     reply_count |-> 0, last_reply_by |-> "null", view_count |-> 0]

\* Post document as built by Post.create: schema defaults
NewPost(id, tid, author) ==
    [_id |-> id, threadId |-> tid, v |-> 0,
     originalPost |-> [authorId |-> author, isEdited |-> FALSE,
                       upvotes |-> 0, upvotedBy |-> <<>>],
     comments |-> <<>>]

\* embedded comment as pushed by createComment: CommentSchema defaults
NewComment(id, author, parent) ==
    [_id |-> id, authorId |-> author, content |-> "text",
     parentCommentId |-> parent, isEdited |-> FALSE, isDeleted |-> FALSE,
     upvotes |-> 0, upvotedBy |-> <<>>]

\* Post.findOne({ threadId }): index of the first matching document, 0 if none
FindOne(tid) ==
    IF \E i \in 1..Len(posts) : posts[i].threadId = tid
    THEN CHOOSE i \in 1..Len(posts) :
            /\ posts[i].threadId = tid
            /\ \A j \in 1..(i-1) : posts[j].threadId # tid
    ELSE 0

\* filter { _id } of document.save(): index of the document, 0 if it is gone
FindById(id) ==
    IF \E i \in 1..Len(posts) : posts[i]._id = id
    THEN CHOOSE i \in 1..Len(posts) : posts[i]._id = id
    ELSE 0

\* post.comments.id(commentId): index in the array, 0 if absent
CommentIdx(doc, cid) ==
    IF \E i \in 1..Len(doc.comments) : doc.comments[i]._id = cid
    THEN CHOOSE i \in 1..Len(doc.comments) : doc.comments[i]._id = cid
    ELSE 0

\* Post.deleteOne({ threadId }): removes the first matching document
DeleteOne(ps, tid) ==
    LET hit == {i \in 1..Len(ps) : ps[i].threadId = tid}
    IN  IF hit = {} THEN ps
        ELSE LET k == CHOOSE i \in hit : \A j \in hit : i <= j
             IN  Splice(ps, k)

DocsOf(tid) == {i \in 1..Len(posts) : posts[i].threadId = tid}

----------------------------------------------------------------------------
(* Handler invocations.                                                    *)

NoVotes == [upvotes |-> 0, upvotedBy |-> <<>>]

NoSnap == [id |-> NoId, v |-> 0, idx |-> 0, upvotes |-> 0, upvotedBy |-> <<>>]

IdleLoc ==
    [op |-> "none", user |-> "null", tid |-> NoId, cid |-> NoId,
     parent |-> NoId, cat |-> "null",
     client |-> "none",     \* pool client: none / held / released
     thread |-> NoId,       \* createThread: thread.id, NoId while undefined
     wrote |-> FALSE,       \* createThread: Post.create resolved
     \* the ActivityLog.create started by logActivity: none / pending /
     \* stored / failed
     audit |-> "none",
     target |-> "null",     \* banUser, unbanUser: req.params.userId
     \* getThread: the UPDATE of view_count, sent and not awaited: none /
     \* pending / done
     view |-> "none",
     flag |-> FALSE,        \* lockThread, pinThread: the value RETURNING gave
     \* history, for the properties: the place of the request and of the
     \* answer of an admin operation among the requests and answers of all
     \* admin operations; for a request through authenticate, the number of
     \* those that came before it
     from |-> 0, at |-> 0,
     why |-> "none",        \* createThread: the store call that threw first
     \* history, for the properties: the awaited calls that resolved, the
     \* release of the client and the logActivity call, in program order
     steps |-> <<>>,
     snap |-> NoSnap,       \* the document state read by findOne
     res |-> "none",        \* the outcome the caller gets
     out |-> [upvotes |-> 0, upvoted |-> FALSE],    \* body of the response
     \* history of a vote, for the properties: the number of vote saves
     \* done when the document was read and when it was saved, and the
     \* stored target right before and right after the save
     readAt |-> 0, savedAt |-> 0, before |-> NoVotes, after |-> NoVotes]

Idle(p) == pc[p] = "idle"
Ended(p) == pc[p] = "done"
InFlight(p) == pc[p] \notin {"idle", "done"}
Quiet == \A p \in DOMAIN pc : ~InFlight(p)

\* the handler throws or responds: asyncHandler passes the outcome on
Finish(p, l, outcome) ==
    /\ pc' = [pc EXCEPT ![p] = "done"]
    /\ loc' = [loc EXCEPT ![p] = [l EXCEPT !.res = outcome]]

Goto(p, l, label) ==
    /\ pc' = [pc EXCEPT ![p] = label]
    /\ loc' = [loc EXCEPT ![p] = l]

\* the awaited call resolved, or the synchronous call was made
Did(l, step) == [l EXCEPT !.steps = Append(@, step)]

----------------------------------------------------------------------------
(* createThread                                                            *)

StartCreateThread(p) ==
    /\ Idle(p)
    /\ \E u \in Users, c \in CategoryIds :
          Goto(p, [IdleLoc EXCEPT !.op = "createThread", !.user = u, !.cat = c],
               "ct_category")
    /\ UNCHANGED store

\* a category check that only looks for the row
CategoryExists(c) == c \in DOMAIN Categories

\* SELECT id FROM categories WHERE id = $1 AND status = 'active' has a row
CategoryActive(c) == c \in DOMAIN Categories /\ Categories[c] = "active"

\* await query(SELECT ...); if (!catResult.rows[0]) throw 404
CT_CategoryOk(p) ==
    /\ pc[p] = "ct_category"
    /\ IF CategoryActive(loc[p].cat)
       THEN Goto(p, Did(loc[p], "category"), "ct_connect")
       ELSE Finish(p, Did(loc[p], "category"), "NotFound")
    /\ UNCHANGED store

CT_CategoryFail(p) ==
    /\ pc[p] = "ct_category"
    /\ Finish(p, loc[p], "StoreError")
    /\ UNCHANGED store

\* const client = await getClient()
CT_ConnectOk(p) ==
    /\ pc[p] = "ct_connect"
    /\ Goto(p, Did([loc[p] EXCEPT !.client = "held"], "connect"), "ct_begin")
    /\ UNCHANGED store

CT_ConnectFail(p) ==
    /\ pc[p] = "ct_connect"
    /\ Finish(p, loc[p], "StoreError")
    /\ UNCHANGED store

\* await client.query('BEGIN')
CT_BeginOk(p) ==
    /\ pc[p] = "ct_begin"
    /\ Goto(p, Did(loc[p], "BEGIN"), "ct_insert")
    /\ UNCHANGED store

\* a store call inside try throws: control passes to the catch block
Catch(p, l, call) == Goto(p, [l EXCEPT !.why = call], "ct_rollback")

CT_BeginFail(p) ==
    /\ pc[p] = "ct_begin"
    /\ Catch(p, loc[p], "BEGIN")
    /\ UNCHANGED store

\* COMMIT that loses the inserted row
CommitLosesRow(tid, author) == threads

\* the rows visible to pool.query once COMMIT succeeded
Commit(tid, author) ==
    [t \in DOMAIN threads \cup {tid} |->
        IF t = tid THEN NewThreadRow(author) ELSE threads[t]]

\* INSERT sent with pool.query instead of client.query: committed at once
InsertAutocommit(tid, author) == Commit(tid, author)

\* the rows visible to pool.query after client.query(INSERT) inside the
\* transaction opened by BEGIN: the new row stays uncommitted
InsertInTx(tid, author) == threads

\* a saga that issues COMMIT right after the INSERT, before the content write
CT_InsertThenCommit(p) ==
    /\ pc[p] = "ct_insert"
    /\ threads' = InsertInTx(nextThreadId, loc[p].user)
    /\ Goto(p, Did([loc[p] EXCEPT !.thread = nextThreadId], "INSERT"),
            "ct_commit")
    /\ nextThreadId' = nextThreadId + 1
    /\ UNCHANGED <<posts, nextPostId, nextCommentId,
                   users, activity>>

\* INSERT INTO threads ... RETURNING id
CT_InsertOk(p) ==
    /\ pc[p] = "ct_insert"
    /\ threads' = InsertInTx(nextThreadId, loc[p].user)
    /\ Goto(p, Did([loc[p] EXCEPT !.thread = nextThreadId], "INSERT"),
            "ct_post")
    /\ nextThreadId' = nextThreadId + 1
    /\ UNCHANGED <<posts, nextPostId, nextCommentId,
                   users, activity>>

CT_InsertFail(p) ==
    /\ pc[p] = "ct_insert"
    /\ Catch(p, loc[p], "INSERT")
    /\ UNCHANGED store

\* a content write that is sent twice
CT_PostTwice(p) ==
    /\ pc[p] = "ct_post"
    /\ posts' = Append(Append(posts,
                    NewPost(nextPostId, loc[p].thread, loc[p].user)),
                    NewPost(nextPostId + 1, loc[p].thread, loc[p].user))
    /\ nextPostId' = nextPostId + 2
    /\ Goto(p, Did([loc[p] EXCEPT !.wrote = TRUE], "Post.create"),
            "ct_commit")
    /\ UNCHANGED <<threads, nextThreadId, nextCommentId,
                   users, activity>>

\* await Post.create({ threadId: thread.id, originalPost, tags })
CT_PostOk(p) ==
    /\ pc[p] = "ct_post"
    /\ posts' = Append(posts, NewPost(nextPostId, loc[p].thread, loc[p].user))
    /\ nextPostId' = nextPostId + 1
    /\ Goto(p, Did([loc[p] EXCEPT !.wrote = TRUE], "Post.create"),
            "ct_commit")
    /\ UNCHANGED <<threads, nextThreadId, nextCommentId,
                   users, activity>>

\* Post.create rejects: the insert of the one document did not happen
CT_PostFail(p) ==
    /\ pc[p] = "ct_post"
    /\ Catch(p, loc[p], "Post.create")
    /\ UNCHANGED store

\* a finally block that keeps the client
ReleaseForgotten(l) == l

\* finally { client.release() }
Release(l) == Did([l EXCEPT !.client = "released"], "release")

\* logActivity(authorId, 'CREATE_THREAD', ...): called, not awaited
Audit(l) == Did([l EXCEPT !.audit = "pending"], "audit")

\* the document ActivityLog.create writes
LogEntry(l) == [userId |-> l.user, action |-> l.op]

\* ActivityLog.create(...) resolves, after the handler has responded
AuditOk(p) ==
    /\ loc[p].audit = "pending"
    /\ activity' = Append(activity, LogEntry(loc[p]))
    /\ loc' = [loc EXCEPT ![p].audit = "stored"]
    /\ UNCHANGED <<threads, posts, nextThreadId, nextPostId, nextCommentId,
                   users, pc>>

\* an audit failure that reaches the caller
AuditFailSurfaces(p) ==
    /\ loc[p].audit = "pending"
    /\ loc' = [loc EXCEPT ![p].audit = "failed", ![p].res = "StoreError"]
    /\ UNCHANGED <<store, pc>>

\* ActivityLog.create(...) rejects: .catch(err => console.error(...))
AuditFail(p) ==
    /\ loc[p].audit = "pending"
    /\ loc' = [loc EXCEPT ![p].audit = "failed"]
    /\ UNCHANGED <<store, pc>>

\* await client.query('COMMIT'), finally, logActivity, 201
CT_CommitOk(p) ==
    /\ pc[p] = "ct_commit"
    /\ threads' = Commit(loc[p].thread, loc[p].user)
    /\ Finish(p, Audit(Release(Did(loc[p], "COMMIT"))), "ok")
    /\ UNCHANGED <<posts, nextThreadId, nextPostId, nextCommentId,
                   users, activity>>

\* COMMIT rejects: the transaction is rolled back by the server
CT_CommitFail(p) ==
    /\ pc[p] = "ct_commit"
    /\ Catch(p, loc[p], "COMMIT")
    /\ UNCHANGED store

\* catch: await client.query('ROLLBACK')
CT_RollbackOk(p) ==
    /\ pc[p] = "ct_rollback"
    /\ Goto(p, Did(loc[p], "ROLLBACK"), "ct_cleanup")
    /\ UNCHANGED store

\* ROLLBACK throws inside catch: deleteOne and `throw err` are skipped,
\* finally runs, the ROLLBACK error reaches the caller
CT_RollbackFail(p) ==
    /\ pc[p] = "ct_rollback"
    /\ Finish(p, Release(loc[p]), "ROLLBACK")
    /\ UNCHANGED store

\* a delete whose filter, left without a thread id, matches any document
CleanupFirst(l) ==
    IF l.thread = NoId
    THEN (IF Len(posts) = 0 THEN posts ELSE Splice(posts, 1))
    ELSE DeleteOne(posts, l.thread)

\* the documents left by Post.deleteOne({ threadId: thread?.id }); when the
\* INSERT never returned a row the filter is { threadId: undefined }, which
\* is sent as threadId null and matches no document (threadId is required)
Cleanup(l) == IF l.thread = NoId THEN posts ELSE DeleteOne(posts, l.thread)

\* await Post.deleteOne(...).catch(() => {}); throw err; finally
CT_CleanupOk(p) ==
    /\ pc[p] = "ct_cleanup"
    /\ posts' = Cleanup(loc[p])
    /\ Finish(p, Release(Did(loc[p], "deleteOne")), loc[p].why)
    /\ UNCHANGED <<threads, nextThreadId, nextPostId, nextCommentId,
                   users, activity>>

\* deleteOne rejects: swallowed by .catch(() => {})
CT_CleanupFail(p) ==
    /\ pc[p] = "ct_cleanup"
    /\ Finish(p, Release(loc[p]), loc[p].why)
    /\ UNCHANGED store

----------------------------------------------------------------------------
(* createComment                                                           *)

StartCreateComment(p, callers, tids, parents) ==
    /\ Idle(p)
    /\ \E u \in callers, t \in tids, c \in parents :
          Goto(p, [IdleLoc EXCEPT !.op = "createComment", !.user = u,
                                  !.tid = t, !.parent = c], "cc_thread")
    /\ UNCHANGED store

\* a lock check that lets moderators and admins through
CC_ThreadStaffPass(p) ==
    /\ pc[p] = "cc_thread"
    /\ IF loc[p].tid \notin DOMAIN threads THEN Finish(p, loc[p], "NotFound")
       ELSE IF threads[loc[p].tid].is_locked /\ Role(loc[p].user) = "user"
            THEN Finish(p, loc[p], "Forbidden")
       ELSE IF loc[p].parent # NoId THEN Goto(p, loc[p], "cc_parent")
       ELSE Goto(p, loc[p], "cc_push")
    /\ UNCHANGED store

\* a lookup that takes the row for granted
CC_ThreadAssumed(p) ==
    /\ pc[p] = "cc_thread"
    /\ IF loc[p].tid \in DOMAIN threads /\ threads[loc[p].tid].is_locked
       THEN Finish(p, loc[p], "Forbidden")
       ELSE IF loc[p].parent # NoId THEN Goto(p, loc[p], "cc_parent")
       ELSE Goto(p, loc[p], "cc_push")
    /\ UNCHANGED store

\* SELECT id, is_locked FROM threads WHERE id = $1
CC_ThreadOk(p) ==
    /\ pc[p] = "cc_thread"
    /\ IF loc[p].tid \notin DOMAIN threads THEN Finish(p, loc[p], "NotFound")
       ELSE IF threads[loc[p].tid].is_locked THEN Finish(p, loc[p], "Forbidden")
       ELSE IF loc[p].parent # NoId THEN Goto(p, loc[p], "cc_parent")
       ELSE Goto(p, loc[p], "cc_push")
    /\ UNCHANGED store

CC_ThreadFail(p) ==
    /\ pc[p] = "cc_thread"
    /\ Finish(p, loc[p], "StoreError")
    /\ UNCHANGED store

\* a parent check that forgets the threadId of the filter
ParentAnywhere(tid, parent) ==
    \E k \in 1..Len(posts) : CommentIdx(posts[k], parent) # 0

\* Post.findOne({ threadId, 'comments._id': parentCommentId })
ParentFound(tid, parent) ==
    \E k \in 1..Len(posts) :
        posts[k].threadId = tid /\ CommentIdx(posts[k], parent) # 0

\* a handler that looks the parent up and ignores the answer
CC_ParentUnchecked(p) ==
    /\ pc[p] = "cc_parent"
    /\ Goto(p, loc[p], "cc_push")
    /\ UNCHANGED store

\* if (parentCommentId) { post = await Post.findOne(...); if (!post) throw 404 }
CC_ParentOk(p) ==
    /\ pc[p] = "cc_parent"
    /\ IF ParentFound(loc[p].tid, loc[p].parent)
       THEN Goto(p, loc[p], "cc_push")
       ELSE Finish(p, loc[p], "NotFound")
    /\ UNCHANGED store

CC_ParentFail(p) ==
    /\ pc[p] = "cc_parent"
    /\ Finish(p, loc[p], "StoreError")
    /\ UNCHANGED store

\* Post.findOneAndUpdate({ threadId }, { $push: { comments: newComment } })
CC_PushOk(p) ==
    /\ pc[p] = "cc_push"
    /\ LET k == FindOne(loc[p].tid)
       IN  IF k = 0
           THEN /\ Finish(p, loc[p], "NotFound")
                /\ UNCHANGED store
           ELSE /\ posts' = [posts EXCEPT ![k].comments =
                       Append(@, NewComment(nextCommentId, loc[p].user,
                                            loc[p].parent))]
                /\ nextCommentId' = nextCommentId + 1
                /\ Goto(p, [loc[p] EXCEPT !.wrote = TRUE,
                                          !.cid = nextCommentId], "cc_count")
                /\ UNCHANGED <<threads, nextThreadId, nextPostId,
                               users, activity>>

CC_PushFail(p) ==
    /\ pc[p] = "cc_push"
    /\ Finish(p, loc[p], "StoreError")
    /\ UNCHANGED store

\* an UPDATE that sets the last-reply columns and forgets the counter
CountNotRaised(row, user) == [row EXCEPT !.last_reply_by = user]

\* SET reply_count = reply_count + 1, last_reply_at = NOW(), last_reply_by = $1
CountAfterCreate(row, user) ==
    [row EXCEPT !.reply_count = @ + 1, !.last_reply_by = user]

\* an UPDATE whose WHERE clause is missing the thread id: no row is changed
UpdateNoRow(tid, row) == threads

\* UPDATE threads SET ... WHERE id = $2: one statement on the current row
UpdateRow(tid, row) ==
    IF tid \in DOMAIN threads THEN [threads EXCEPT ![tid] = row] ELSE threads

\* await query(UPDATE threads ...), logActivity, 201
CC_CountOk(p) ==
    /\ pc[p] = "cc_count"
    /\ threads' = IF loc[p].tid \in DOMAIN threads
                  THEN UpdateRow(loc[p].tid,
                           CountAfterCreate(threads[loc[p].tid], loc[p].user))
                  ELSE threads
    /\ Finish(p, Audit(loc[p]), "ok")
    /\ UNCHANGED <<posts, nextThreadId, nextPostId, nextCommentId,
                   users, activity>>

\* the UPDATE rejects: the comment stays pushed, the handler throws
\* a failing counter update that takes the appended comment out again
CC_CountFailUndoes(p) ==
    /\ pc[p] = "cc_count"
    /\ posts' = [k \in 1..Len(posts) |->
                    [posts[k] EXCEPT !.comments =
                        SelectSeq(@, LAMBDA c : c._id # loc[p].cid)]]
    /\ Finish(p, loc[p], "StoreError")
    /\ UNCHANGED <<threads, nextThreadId, nextPostId, nextCommentId,
                   users, activity>>

\* the UPDATE rejects: the comment stays appended, the handler throws
CC_CountFail(p) ==
    /\ pc[p] = "cc_count"
    /\ Finish(p, loc[p], "StoreError")
    /\ UNCHANGED store

----------------------------------------------------------------------------
(* deleteComment                                                           *)

\* what the handler keeps of the document returned by findOne: its _id and
\* __v, the index of the comment, and the voters of the target
Snap(doc, i, target) ==
    [id |-> doc._id, v |-> doc.v, idx |-> i,
     upvotes |-> target.upvotes, upvotedBy |-> target.upvotedBy]

StartDeleteComment(p, callers, tids, cids) ==
    /\ Idle(p)
    /\ \E u \in callers, t \in tids, c \in cids :
          Goto(p, [IdleLoc EXCEPT !.op = "deleteComment", !.user = u,
                                  !.tid = t, !.cid = c], "dc_find")
    /\ UNCHANGED store

\* a permission check that knows the owner only
OwnerOnly(comment, user) == comment.authorId = user

\* isOwner || isMod
MayChange(comment, user) ==
    comment.authorId = user \/ Role(user) \in {"moderator", "admin"}

\* Post.findOne({ threadId }); post.comments.id(commentId); the checks
DC_FindOk(p) ==
    /\ pc[p] = "dc_find"
    /\ LET k == FindOne(loc[p].tid)
           i == IF k = 0 THEN 0 ELSE CommentIdx(posts[k], loc[p].cid)
       IN  IF k = 0 THEN Finish(p, loc[p], "NotFound")
           ELSE IF i = 0 \/ posts[k].comments[i].isDeleted
                THEN Finish(p, loc[p], "NotFound")
           ELSE IF ~MayChange(posts[k].comments[i], loc[p].user)
                THEN Finish(p, loc[p], "Forbidden")
           ELSE Goto(p, [loc[p] EXCEPT !.snap =
                       Snap(posts[k], i, posts[k].comments[i])], "dc_save")
    /\ UNCHANGED store

DC_FindFail(p) ==
    /\ pc[p] = "dc_find"
    /\ Finish(p, loc[p], "StoreError")
    /\ UNCHANGED store

\* comment.isDeleted = true; comment.deletedAt = ...; comment.content = ...
\* a tombstone that also forgets the votes
TombstoneResets(comment) ==
    [comment EXCEPT !.isDeleted = TRUE, !.content = Deleted,
                    !.upvotes = 0, !.upvotedBy = <<>>]

Tombstone(comment) == [comment EXCEPT !.isDeleted = TRUE, !.content = Deleted]

\* filter of save() for $set under comments.<i>: { _id, __v }
SaveMatches(snap) ==
    /\ FindById(snap.id) # 0
    /\ posts[FindById(snap.id)].v = snap.v

\* a delete that takes the comment out of the array
DC_SaveRemoves(p) ==
    /\ pc[p] = "dc_save"
    /\ IF SaveMatches(loc[p].snap)
       THEN /\ posts' = [posts EXCEPT ![FindById(loc[p].snap.id)].comments =
                                          Splice(@, loc[p].snap.idx)]
            /\ Goto(p, [loc[p] EXCEPT !.wrote = TRUE], "dc_count")
       ELSE /\ Finish(p, loc[p], "VersionError")
            /\ UNCHANGED posts
    /\ UNCHANGED <<threads, nextThreadId, nextPostId, nextCommentId,
                   users, activity>>

\* await post.save(): $set of comments.<i>.isDeleted, deletedAt, content
DC_SaveOk(p) ==
    /\ pc[p] = "dc_save"
    /\ IF SaveMatches(loc[p].snap)
       THEN /\ posts' = [posts EXCEPT
                   ![FindById(loc[p].snap.id)].comments[loc[p].snap.idx] =
                       Tombstone(@)]
            /\ Goto(p, [loc[p] EXCEPT !.wrote = TRUE], "dc_count")
       ELSE /\ Finish(p, loc[p], "VersionError")
            /\ UNCHANGED posts
    /\ UNCHANGED <<threads, nextThreadId, nextPostId, nextCommentId,
                   users, activity>>

DC_SaveFail(p) ==
    /\ pc[p] = "dc_save"
    /\ Finish(p, loc[p], "StoreError")
    /\ UNCHANGED store

\* SET reply_count = reply_count - 1, without GREATEST
CountNotFloored(row) == [row EXCEPT !.reply_count = @ - 1]

\* SET reply_count = GREATEST(reply_count - 1, 0)
CountAfterDelete(row) == [row EXCEPT !.reply_count = Max(@ - 1, 0)]

\* await query(UPDATE threads ...), logActivity, 200
DC_CountOk(p) ==
    /\ pc[p] = "dc_count"
    /\ threads' = IF loc[p].tid \in DOMAIN threads
                  THEN UpdateRow(loc[p].tid,
                                 CountAfterDelete(threads[loc[p].tid]))
                  ELSE threads
    /\ Finish(p, Audit(loc[p]), "ok")
    /\ UNCHANGED <<posts, nextThreadId, nextPostId, nextCommentId,
                   users, activity>>

\* a failing counter update that records the activity all the same
DC_CountFailAudits(p) ==
    /\ pc[p] = "dc_count"
    /\ Finish(p, Audit(loc[p]), "StoreError")
    /\ UNCHANGED store

\* the UPDATE rejects: the comment stays tombstoned, the handler throws
DC_CountFail(p) ==
    /\ pc[p] = "dc_count"
    /\ Finish(p, loc[p], "StoreError")
    /\ UNCHANGED store

----------------------------------------------------------------------------
(* upvoteThread (PostSchema.methods.toggleUpvote) and upvoteComment        *)

IsVote(p) == loc[p].op \in {"upvoteThread", "upvoteComment"}

\* the number of vote saves done so far (history, read by the properties)
VoteSaves ==
    Cardinality({p \in DOMAIN pc : Ended(p) /\ IsVote(p) /\ loc[p].res = "ok"})

Votes(target) == [upvotes |-> target.upvotes, upvotedBy |-> target.upvotedBy]

\* the in-memory toggle: indexOf, then push and += 1, or splice and -= 1
Toggled(target, user) ==
    LET idx == IndexOf(target.upvotedBy, user)
    IN  IF idx = 0
        THEN [upvotes |-> target.upvotes + 1,
              upvotedBy |-> Append(target.upvotedBy, user)]
        ELSE [upvotes |-> target.upvotes - 1,
              upvotedBy |-> Splice(target.upvotedBy, idx)]

\* the delta save() sends for the toggled target, applied to the stored one:
\* push -> $push of the voter; splice -> $set of the local array;
\* upvotes -> $set of the local number
SaveToggle(cur, snap, user) ==
    IF IndexOf(snap.upvotedBy, user) = 0
    THEN [cur EXCEPT !.upvotedBy = Append(@, user),
                     !.upvotes = Toggled(snap, user).upvotes]
    ELSE [cur EXCEPT !.upvotedBy = Toggled(snap, user).upvotedBy,
                     !.upvotes = Toggled(snap, user).upvotes]

\* { upvotes, upvoted: upvotedBy.includes(userId) } of the local document
VoteResponse(snap, user) ==
    [upvotes |-> Toggled(snap, user).upvotes,
     upvoted |-> Includes(Toggled(snap, user).upvotedBy, user)]

StartUpvoteThread(p, callers, tids) ==
    /\ Idle(p)
    /\ \E u \in callers, t \in tids :
          Goto(p, [IdleLoc EXCEPT !.op = "upvoteThread", !.user = u, !.tid = t],
               "ut_find")
    /\ UNCHANGED store

\* Post.findOne({ threadId })
UT_FindOk(p) ==
    /\ pc[p] = "ut_find"
    /\ LET k == FindOne(loc[p].tid)
       IN  IF k = 0 THEN Finish(p, loc[p], "NotFound")
           ELSE Goto(p, [loc[p] EXCEPT
                           !.snap = Snap(posts[k], 0, posts[k].originalPost),
                           !.readAt = VoteSaves], "ut_save")
    /\ UNCHANGED store

UT_FindFail(p) ==
    /\ pc[p] = "ut_find"
    /\ Finish(p, loc[p], "StoreError")
    /\ UNCHANGED store

\* filter of save() in toggleUpvote: { _id } after a push of
\* originalPost.upvotedBy, { _id, __v } after a splice ($set of the array)
PostSaveMatches(snap, user) ==
    /\ FindById(snap.id) # 0
    /\ IndexOf(snap.upvotedBy, user) # 0 => posts[FindById(snap.id)].v = snap.v

\* the response and the history a vote leaves in its slot
Voted(l, cur, new) ==
    [l EXCEPT !.out = VoteResponse(l.snap, l.user), !.wrote = TRUE,
              !.savedAt = VoteSaves + 1,
              !.before = Votes(cur), !.after = Votes(new)]

\* await post.toggleUpvote(userId): this.save(); logActivity; 200
UT_SaveOk(p) ==
    /\ pc[p] = "ut_save"
    /\ IF PostSaveMatches(loc[p].snap, loc[p].user)
       THEN LET k == FindById(loc[p].snap.id)
                new == SaveToggle(posts[k].originalPost, loc[p].snap, loc[p].user)
            IN  /\ posts' = [posts EXCEPT ![k].originalPost = new,
                                          ![k].v = @ + 1]
                /\ Finish(p, Audit(Voted(loc[p], posts[k].originalPost,
                                                   new)), "ok")
       ELSE /\ Finish(p, loc[p], "VersionError")
            /\ UNCHANGED posts
    /\ UNCHANGED <<threads, nextThreadId, nextPostId, nextCommentId,
                   users, activity>>

UT_SaveFail(p) ==
    /\ pc[p] = "ut_save"
    /\ Finish(p, loc[p], "StoreError")
    /\ UNCHANGED store

StartUpvoteComment(p, callers, tids, cids) ==
    /\ Idle(p)
    /\ \E u \in callers, t \in tids, c \in cids :
          Goto(p, [IdleLoc EXCEPT !.op = "upvoteComment", !.user = u,
                                  !.tid = t, !.cid = c], "uc_find")
    /\ UNCHANGED store

\* a lookup that accepts a tombstoned comment
UC_FindAny(p) ==
    /\ pc[p] = "uc_find"
    /\ LET k == FindOne(loc[p].tid)
           i == IF k = 0 THEN 0 ELSE CommentIdx(posts[k], loc[p].cid)
       IN  IF k = 0 \/ i = 0 THEN Finish(p, loc[p], "NotFound")
           ELSE Goto(p, [loc[p] EXCEPT
                           !.snap = Snap(posts[k], i, posts[k].comments[i]),
                           !.readAt = VoteSaves], "uc_save")
    /\ UNCHANGED store

\* Post.findOne({ threadId }); post.comments.id(commentId)
UC_FindOk(p) ==
    /\ pc[p] = "uc_find"
    /\ LET k == FindOne(loc[p].tid)
           i == IF k = 0 THEN 0 ELSE CommentIdx(posts[k], loc[p].cid)
       IN  IF k = 0 THEN Finish(p, loc[p], "NotFound")
           ELSE IF i = 0 \/ posts[k].comments[i].isDeleted
                THEN Finish(p, loc[p], "NotFound")
           ELSE Goto(p, [loc[p] EXCEPT
                           !.snap = Snap(posts[k], i, posts[k].comments[i]),
                           !.readAt = VoteSaves], "uc_save")
    /\ UNCHANGED store

UC_FindFail(p) ==
    /\ pc[p] = "uc_find"
    /\ Finish(p, loc[p], "StoreError")
    /\ UNCHANGED store

\* await post.save(): $push or $set of comments.<i>.upvotedBy and $set of
\* comments.<i>.upvotes, filter { _id, __v }, $inc of __v; logActivity; 200
UC_SaveOk(p) ==
    /\ pc[p] = "uc_save"
    /\ IF SaveMatches(loc[p].snap)
       THEN LET k == FindById(loc[p].snap.id)
                i == loc[p].snap.idx
                new == SaveToggle(posts[k].comments[i], loc[p].snap, loc[p].user)
            IN  /\ posts' = [posts EXCEPT ![k].comments[i] = new,
                                          ![k].v = @ + 1]
                /\ Finish(p, Audit(Voted(loc[p], posts[k].comments[i],
                                                   new)), "ok")
       ELSE /\ Finish(p, loc[p], "VersionError")
            /\ UNCHANGED posts
    /\ UNCHANGED <<threads, nextThreadId, nextPostId, nextCommentId,
                   users, activity>>

UC_SaveFail(p) ==
    /\ pc[p] = "uc_save"
    /\ Finish(p, loc[p], "StoreError")
    /\ UNCHANGED store

----------------------------------------------------------------------------
(* updateComment                                                           *)

StartUpdateComment(p, callers, tids, cids) ==
    /\ Idle(p)
    /\ \E u \in callers, t \in tids, c \in cids :
          Goto(p, [IdleLoc EXCEPT !.op = "updateComment", !.user = u,
                                  !.tid = t, !.cid = c], "upd_find")
    /\ UNCHANGED store

\* Post.findOne({ threadId }); post.comments.id(commentId); the checks
UPD_FindOk(p) ==
    /\ pc[p] = "upd_find"
    /\ LET k == FindOne(loc[p].tid)
           i == IF k = 0 THEN 0 ELSE CommentIdx(posts[k], loc[p].cid)
       IN  IF k = 0 THEN Finish(p, loc[p], "NotFound")
           ELSE IF i = 0 \/ posts[k].comments[i].isDeleted
                THEN Finish(p, loc[p], "NotFound")
           ELSE IF ~MayChange(posts[k].comments[i], loc[p].user)
                THEN Finish(p, loc[p], "Forbidden")
           ELSE Goto(p, [loc[p] EXCEPT !.snap =
                       Snap(posts[k], i, posts[k].comments[i])], "upd_save")
    /\ UNCHANGED store

UPD_FindFail(p) ==
    /\ pc[p] = "upd_find"
    /\ Finish(p, loc[p], "StoreError")
    /\ UNCHANGED store

\* comment.content = content; comment.isEdited = true; comment.editedAt = ...
\* an edit that also forgets the votes
EditedResets(comment) ==
    [comment EXCEPT !.content = "edited", !.isEdited = TRUE,
                    !.upvotes = 0, !.upvotedBy = <<>>]

Edited(comment) == [comment EXCEPT !.content = "edited", !.isEdited = TRUE]

\* await post.save(): $set of comments.<i>.content, isEdited, editedAt with
\* filter { _id, __v }, no $inc of __v; logActivity; 200
UPD_SaveOk(p) ==
    /\ pc[p] = "upd_save"
    /\ IF SaveMatches(loc[p].snap)
       THEN /\ posts' = [posts EXCEPT
                   ![FindById(loc[p].snap.id)].comments[loc[p].snap.idx] =
                       Edited(@)]
            /\ Finish(p, Audit([loc[p] EXCEPT !.wrote = TRUE]), "ok")
       ELSE /\ Finish(p, loc[p], "VersionError")
            /\ UNCHANGED posts
    /\ UNCHANGED <<threads, nextThreadId, nextPostId, nextCommentId,
                   users, activity>>

UPD_SaveFail(p) ==
    /\ pc[p] = "upd_save"
    /\ Finish(p, loc[p], "StoreError")
    /\ UNCHANGED store

----------------------------------------------------------------------------
(* lockThread, updateThread, deleteThread                                  *)

\* authorize('moderator', 'admin'): the role's level is at least the least
\* level of the roles named
Authorized(user) == Role(user) \in {"moderator", "admin"}

\* router.patch('/:id/lock', authenticate, authorize(...), lockThread)
StartLockThread(p, callers, tids) ==
    /\ Idle(p)
    /\ \E u \in callers, t \in tids :
          LET l == [IdleLoc EXCEPT !.op = "lockThread", !.user = u, !.tid = t]
          IN  IF Authorized(u) THEN Goto(p, l, "lt_toggle")
              ELSE Finish(p, l, "Forbidden")
    /\ UNCHANGED store

\* an UPDATE that sets the flag in place of negating it
LT_SetLocked(p) ==
    /\ pc[p] = "lt_toggle"
    /\ IF loc[p].tid \in DOMAIN threads
       THEN /\ threads' = [threads EXCEPT ![loc[p].tid].is_locked = TRUE]
            /\ Finish(p, [loc[p] EXCEPT !.wrote = TRUE, !.flag = TRUE], "ok")
       ELSE /\ Finish(p, loc[p], "NotFound")
            /\ UNCHANGED threads
    /\ UNCHANGED <<posts, nextThreadId, nextPostId, nextCommentId,
                   users, activity>>

\* UPDATE threads SET is_locked = NOT is_locked WHERE id = $1 RETURNING
\* id, is_locked; 404 without row; 200 with { is_locked }
LT_ToggleOk(p) ==
    /\ pc[p] = "lt_toggle"
    /\ IF loc[p].tid \in DOMAIN threads
       THEN /\ threads' = [threads EXCEPT ![loc[p].tid].is_locked = ~@]
            /\ Finish(p, [loc[p] EXCEPT !.wrote = TRUE,
                              !.flag = ~threads[loc[p].tid].is_locked], "ok")
       ELSE /\ Finish(p, loc[p], "NotFound")
            /\ UNCHANGED threads
    /\ UNCHANGED <<posts, nextThreadId, nextPostId, nextCommentId,
                   users, activity>>

LT_ToggleFail(p) ==
    /\ pc[p] = "lt_toggle"
    /\ Finish(p, loc[p], "StoreError")
    /\ UNCHANGED store

\* router.patch('/:id/pin', authenticate, authorize(...), pinThread)
StartPinThread(p, callers, tids) ==
    /\ Idle(p)
    /\ \E u \in callers, t \in tids :
          LET l == [IdleLoc EXCEPT !.op = "pinThread", !.user = u, !.tid = t]
          IN  IF Authorized(u) THEN Goto(p, l, "pt_toggle")
              ELSE Finish(p, l, "Forbidden")
    /\ UNCHANGED store

\* UPDATE threads SET is_pinned = NOT is_pinned WHERE id = $1 RETURNING
\* id, is_pinned; 404 without row; 200 with { is_pinned }
PT_ToggleOk(p) ==
    /\ pc[p] = "pt_toggle"
    /\ IF loc[p].tid \in DOMAIN threads
       THEN /\ threads' = [threads EXCEPT ![loc[p].tid].is_pinned = ~@]
            /\ Finish(p, [loc[p] EXCEPT !.wrote = TRUE,
                              !.flag = ~threads[loc[p].tid].is_pinned], "ok")
       ELSE /\ Finish(p, loc[p], "NotFound")
            /\ UNCHANGED threads
    /\ UNCHANGED <<posts, nextThreadId, nextPostId, nextCommentId,
                   users, activity>>

\* PATCH /:id with a new content and no title
StartUpdateThread(p, callers, tids) ==
    /\ Idle(p)
    /\ \E u \in callers, t \in tids :
          Goto(p, [IdleLoc EXCEPT !.op = "updateThread", !.user = u, !.tid = t],
               "uth_thread")
    /\ UNCHANGED store

\* SELECT id, author_id, title FROM threads WHERE id = $1; the checks
UTH_ThreadOk(p) ==
    /\ pc[p] = "uth_thread"
    /\ IF loc[p].tid \notin DOMAIN threads THEN Finish(p, loc[p], "NotFound")
       ELSE IF /\ threads[loc[p].tid].author_id # loc[p].user
               /\ Role(loc[p].user) \notin {"moderator", "admin"}
            THEN Finish(p, loc[p], "Forbidden")
       ELSE Goto(p, loc[p], "uth_set")
    /\ UNCHANGED store

UTH_ThreadFail(p) ==
    /\ pc[p] = "uth_thread"
    /\ Finish(p, loc[p], "StoreError")
    /\ UNCHANGED store

\* Post.findOneAndUpdate({ threadId }, { $set: originalPost.content, ... });
\* the result is not checked; logActivity; 200
UTH_SetOk(p) ==
    /\ pc[p] = "uth_set"
    /\ LET k == FindOne(loc[p].tid)
       IN  posts' = IF k = 0 THEN posts
                    ELSE [posts EXCEPT ![k].originalPost.isEdited = TRUE]
    /\ Finish(p, Audit([loc[p] EXCEPT !.wrote = TRUE]), "ok")
    /\ UNCHANGED <<threads, nextThreadId, nextPostId, nextCommentId,
                   users, activity>>

UTH_SetFail(p) ==
    /\ pc[p] = "uth_set"
    /\ Finish(p, loc[p], "StoreError")
    /\ UNCHANGED store

\* router.delete('/:id', authenticate, authorize(...), deleteThread)
StartDeleteThread(p, callers, tids) ==
    /\ Idle(p)
    /\ \E u \in callers, t \in tids :
          LET l == [IdleLoc EXCEPT !.op = "deleteThread", !.user = u, !.tid = t]
          IN  IF Authorized(u) THEN Goto(p, l, "dt_thread")
              ELSE Finish(p, l, "Forbidden")
    /\ UNCHANGED store

\* SELECT id FROM threads WHERE id = $1
DT_ThreadOk(p) ==
    /\ pc[p] = "dt_thread"
    /\ IF loc[p].tid \in DOMAIN threads THEN Goto(p, loc[p], "dt_row")
       ELSE Finish(p, loc[p], "NotFound")
    /\ UNCHANGED store

DT_ThreadFail(p) ==
    /\ pc[p] = "dt_thread"
    /\ Finish(p, loc[p], "StoreError")
    /\ UNCHANGED store

\* DELETE FROM threads WHERE id = $1
DT_RowOk(p) ==
    /\ pc[p] = "dt_row"
    /\ threads' = [t \in DOMAIN threads \ {loc[p].tid} |-> threads[t]]
    /\ Goto(p, loc[p], "dt_post")
    /\ UNCHANGED <<posts, nextThreadId, nextPostId, nextCommentId,
                   users, activity>>

DT_RowFail(p) ==
    /\ pc[p] = "dt_row"
    /\ Finish(p, loc[p], "StoreError")
    /\ UNCHANGED store

\* a deleteThread that leaves the content document
DT_PostKept(p) ==
    /\ pc[p] = "dt_post"
    /\ Finish(p, Audit([loc[p] EXCEPT !.wrote = TRUE]), "ok")
    /\ UNCHANGED store

\* await Post.deleteOne({ threadId: id }); logActivity; 200
DT_PostOk(p) ==
    /\ pc[p] = "dt_post"
    /\ posts' = DeleteOne(posts, loc[p].tid)
    /\ Finish(p, Audit([loc[p] EXCEPT !.wrote = TRUE]), "ok")
    /\ UNCHANGED <<threads, nextThreadId, nextPostId, nextCommentId,
                   users, activity>>

DT_PostFail(p) ==
    /\ pc[p] = "dt_post"
    /\ Finish(p, loc[p], "StoreError")
    /\ UNCHANGED store

----------------------------------------------------------------------------
(* getThread.  The slug of a thread is unique, as its id is: a request     *)
(* names the thread by the id.                                             *)

StartGetThread(p, tids) ==
    /\ Idle(p)
    /\ \E t \in tids :
          Goto(p, [IdleLoc EXCEPT !.op = "getThread", !.tid = t], "gt_thread")
    /\ UNCHANGED store

\* SELECT t.*, ... FROM threads t ... WHERE t.slug = $1; 404 without row;
\* query(UPDATE threads SET view_count = view_count + 1) is sent
GT_ThreadOk(p) ==
    /\ pc[p] = "gt_thread"
    /\ IF loc[p].tid \notin DOMAIN threads THEN Finish(p, loc[p], "NotFound")
       ELSE Goto(p, [loc[p] EXCEPT !.thread = loc[p].tid, !.view = "pending"],
                 "gt_post")
    /\ UNCHANGED store

\* the UPDATE of view_count is executed, at any moment after it was sent
GT_ViewOk(p) ==
    /\ loc[p].view = "pending"
    /\ threads' = IF loc[p].thread \in DOMAIN threads
                  THEN UpdateRow(loc[p].thread,
                                 [threads[loc[p].thread] EXCEPT
                                     !.view_count = @ + 1])
                  ELSE threads
    /\ loc' = [loc EXCEPT ![p].view = "done"]
    /\ UNCHANGED <<posts, nextThreadId, nextPostId, nextCommentId,
                   users, activity, pc>>

\* a read that answers with the row alone when the document is missing
GT_PostOptional(p) ==
    /\ pc[p] = "gt_post"
    /\ LET k == FindOne(loc[p].thread)
       IN  IF k = 0 THEN Finish(p, loc[p], "ok")
           ELSE Finish(p, [loc[p] EXCEPT !.snap =
                   Snap(posts[k], 0, posts[k].originalPost)], "ok")
    /\ UNCHANGED store

\* Post.findOne({ threadId: thread.id }); 404 without document; 200 with
\* { thread, post }
GT_PostOk(p) ==
    /\ pc[p] = "gt_post"
    /\ LET k == FindOne(loc[p].thread)
       IN  IF k = 0 THEN Finish(p, loc[p], "NotFound")
           ELSE Finish(p, [loc[p] EXCEPT !.snap =
                   Snap(posts[k], 0, posts[k].originalPost)], "ok")
    /\ UNCHANGED store

----------------------------------------------------------------------------
(* authenticate, banUser, unbanUser                                        *)

AdminOps == {"banUser", "unbanUser"}

\* the number of requests and answers of admin operations so far
Tick ==
    Cardinality({q \in DOMAIN pc : loc[q].op \in AdminOps})
    + Cardinality({q \in DOMAIN pc : Ended(q) /\ loc[q].op \in AdminOps})

\* the first await of the handler behind authenticate
Entry(op) == IF op = "upvoteThread" THEN "ut_find" ELSE "cc_thread"

\* a request with a valid token arrives at router.<verb>(path, authenticate, ...)
StartAuthenticated(p, l) ==
    /\ Idle(p)
    /\ Goto(p, [l EXCEPT !.from = Tick], "auth")
    /\ UNCHANGED store

\* an authenticate that trusts the token alone
AUTH_TokenOnly(p) ==
    /\ pc[p] = "auth"
    /\ Goto(p, loc[p], Entry(loc[p].op))
    /\ UNCHANGED store

\* SELECT ... is_banned FROM users WHERE id = $1; 403 if user.is_banned,
\* else req.user = user; next()
AUTH_Ok(p) ==
    /\ pc[p] = "auth"
    /\ IF users[loc[p].user].is_banned THEN Finish(p, loc[p], "Banned")
       ELSE Goto(p, loc[p], Entry(loc[p].op))
    /\ UNCHANGED store

\* router.use(authenticate, authorize('admin')): an admin's request
StartAdmin(p, op, targets, label) ==
    /\ Idle(p)
    /\ \E a \in Admins, t \in targets :
          Goto(p, [IdleLoc EXCEPT !.op = op, !.user = a, !.target = t,
                                  !.from = Tick + 1], label)
    /\ UNCHANGED store

FinishAdmin(p, l, outcome) == Finish(p, [l EXCEPT !.at = Tick + 1], outcome)

StartBanUser(p, targets) == StartAdmin(p, "banUser", targets, "ban_target")

\* SELECT id, role FROM users WHERE id = $1; 404; 403 for an admin
BAN_TargetOk(p) ==
    /\ pc[p] = "ban_target"
    /\ IF loc[p].target \notin DOMAIN users
       THEN FinishAdmin(p, loc[p], "NotFound")
       ELSE IF Role(loc[p].target) = "admin"
            THEN FinishAdmin(p, loc[p], "Forbidden")
       ELSE Goto(p, loc[p], "ban_update")
    /\ UNCHANGED store

\* UPDATE users SET is_banned = true, ban_reason = $1 WHERE id = $2
BAN_UpdateOk(p) ==
    /\ pc[p] = "ban_update"
    /\ users' = [users EXCEPT ![loc[p].target].is_banned = TRUE]
    /\ Goto(p, [loc[p] EXCEPT !.wrote = TRUE], "ban_insert")
    /\ UNCHANGED <<threads, posts, nextThreadId, nextPostId, nextCommentId,
                   activity>>

\* INSERT INTO user_bans (...); logActivity; 200
BAN_InsertOk(p) ==
    /\ pc[p] = "ban_insert"
    /\ users' = [users EXCEPT ![loc[p].target].bans = @ + 1]
    /\ FinishAdmin(p, Audit(loc[p]), "ok")
    /\ UNCHANGED <<threads, posts, nextThreadId, nextPostId, nextCommentId,
                   activity>>

\* the INSERT rejects: the handler throws, is_banned stays set
BAN_InsertFail(p) ==
    /\ pc[p] = "ban_insert"
    /\ FinishAdmin(p, loc[p], "StoreError")
    /\ UNCHANGED store

StartUnbanUser(p, targets) ==
    StartAdmin(p, "unbanUser", targets, "unban_update")

\* UPDATE users SET is_banned = false, ban_reason = NULL WHERE id = $1
\* RETURNING id; 404 without row; logActivity; 200
UNBAN_UpdateOk(p) ==
    /\ pc[p] = "unban_update"
    /\ IF loc[p].target \in DOMAIN users
       THEN /\ users' = [users EXCEPT ![loc[p].target].is_banned = FALSE]
            /\ FinishAdmin(p, Audit([loc[p] EXCEPT !.wrote = TRUE]), "ok")
       ELSE /\ FinishAdmin(p, loc[p], "NotFound")
            /\ UNCHANGED users
    /\ UNCHANGED <<threads, posts, nextThreadId, nextPostId, nextCommentId,
                   activity>>

----------------------------------------------------------------------------
(* Initial states.  One category "general" and one thread created in it by *)
(* alice: row committed, content document written.  InitStore: nobody has  *)
(* replied yet.  InitBusy: alice and bob have each added one comment.      *)

InitStore ==
    /\ threads = [t \in {SeedThread} |-> NewThreadRow("alice")]
    /\ posts = <<NewPost(1, SeedThread, "alice")>>
    /\ nextThreadId = 2
    /\ nextPostId = 2
    /\ nextCommentId = 1
    /\ users = UserRows
    /\ activity = <<>>

InitBusy ==
    /\ threads = [t \in {SeedThread} |->
          CountAfterCreate(CountAfterCreate(NewThreadRow("alice"), "alice"),
                           "bob")]
    /\ posts = <<[NewPost(1, SeedThread, "alice") EXCEPT !.comments =
                    <<NewComment(1, "alice", NoId), NewComment(2, "bob", NoId)>>]>>
    /\ nextThreadId = 2
    /\ nextPostId = 2
    /\ nextCommentId = 3
    /\ users = UserRows
    /\ activity = <<>>

Slots(n) ==
    /\ pc = [p \in 1..n |-> "idle"]
    /\ loc = [p \in 1..n |-> IdleLoc]

\* the comment ids a request may name: those handed out so far
CommentIds == 1..(nextCommentId - 1)

----------------------------------------------------------------------------
(* SpecSaga: concurrent createThread requests, every store call may fail.  *)

InitSaga == InitStore /\ Slots(NSaga)

NextSaga ==
    \E p \in 1..NSaga :
        \/ StartCreateThread(p)
        \/ CT_CategoryOk(p) \/ CT_CategoryFail(p)
        \/ CT_ConnectOk(p) \/ CT_ConnectFail(p)
        \/ CT_BeginOk(p) \/ CT_BeginFail(p)
        \/ CT_InsertOk(p) \/ CT_InsertFail(p)
        \/ CT_PostOk(p) \/ CT_PostFail(p)
        \/ CT_CommitOk(p) \/ CT_CommitFail(p)
        \/ CT_RollbackOk(p) \/ CT_RollbackFail(p)
        \/ CT_CleanupOk(p) \/ CT_CleanupFail(p)

SpecSaga == InitSaga /\ [][NextSaga]_vars

----------------------------------------------------------------------------
(* Properties of createThread, checked under SpecSaga.                     *)

IsCreate(p) == loc[p].op = "createThread"

\* C1: after a createThread call that returned success, the metadata row of
\* its thread is committed and exactly one content document carries that
\* thread id; the document has no comment and the row has reply_count 0.
C1_SuccessLeavesBoth ==
    \A p \in DOMAIN pc :
        (Ended(p) /\ IsCreate(p) /\ loc[p].res = "ok") =>
            /\ loc[p].thread \in DOMAIN threads
            /\ Cardinality(DocsOf(loc[p].thread)) = 1
            /\ posts[FindOne(loc[p].thread)].comments = <<>>
            /\ threads[loc[p].thread].reply_count = 0

\* C1 witness: two createThread calls have returned success.
C1_Witness ==
    \E p, q \in DOMAIN pc :
        /\ p # q
        /\ Ended(p) /\ IsCreate(p) /\ loc[p].res = "ok"
        /\ Ended(q) /\ IsCreate(q) /\ loc[q].res = "ok"

\* C2: once a createThread whose content-document write failed has returned
\* its error, no metadata row of that thread is visible and no content
\* document with that thread id exists.
C2_ContentFailureLeavesNeither ==
    \A p \in DOMAIN pc :
        (Ended(p) /\ IsCreate(p) /\ loc[p].why = "Post.create") =>
            /\ loc[p].res # "ok"
            /\ loc[p].thread \notin DOMAIN threads
            /\ DocsOf(loc[p].thread) = {}

\* C2 witness: a createThread whose Post.create failed after the INSERT has
\* returned the error, while another createThread succeeded.
C2_Witness ==
    \E p, q \in DOMAIN pc :
        /\ Ended(p) /\ IsCreate(p) /\ loc[p].why = "Post.create"
        /\ loc[p].thread # NoId /\ loc[p].res = "Post.create"
        /\ Ended(q) /\ IsCreate(q) /\ loc[q].res = "ok"

\* C3: once a createThread whose COMMIT failed after the content document
\* was written has returned its error, the content document of that thread
\* id is deleted and no metadata row is committed.
C3_CommitFailureLeavesNeither ==
    \A p \in DOMAIN pc :
        (Ended(p) /\ IsCreate(p) /\ loc[p].why = "COMMIT") =>
            /\ loc[p].thread \notin DOMAIN threads
            /\ DocsOf(loc[p].thread) = {}

\* the number of times the invocation released its client
Releases(l) == Cardinality({i \in 1..Len(l.steps) : l.steps[i] = "release"})

\* C18: a createThread invocation that acquired a client releases it exactly
\* once before it ends, on every exit path (success, failure of BEGIN, of
\* the INSERT, of the content write, of COMMIT, of ROLLBACK itself); the
\* client is held only while the invocation is in flight.
C18_ClientReleasedOnce ==
    \A p \in DOMAIN pc :
        IsCreate(p) =>
            /\ Releases(loc[p]) <= 1
            /\ loc[p].client = "held" => InFlight(p) /\ Releases(loc[p]) = 0
            /\ loc[p].client = "released" => Releases(loc[p]) = 1
            /\ (Ended(p) /\ Includes(loc[p].steps, "connect")) =>
                    loc[p].client = "released"

\* C18 witness: one createThread ended on the failure of ROLLBACK after the
\* failure of COMMIT, another one ended with success; both released.
C18_Witness ==
    \E p, q \in DOMAIN pc :
        /\ Ended(p) /\ IsCreate(p) /\ loc[p].why = "COMMIT"
        /\ loc[p].res = "ROLLBACK" /\ loc[p].client = "released"
        /\ Ended(q) /\ IsCreate(q) /\ loc[q].res = "ok"
        /\ loc[q].client = "released"

\* the steps of the saga the order is stated for, in that order
SagaOrder == <<"category", "BEGIN", "INSERT", "Post.create", "COMMIT", "audit">>

InSaga(step) == Includes(SagaOrder, step)

IsPrefix(s, t) == Len(s) <= Len(t) /\ \A i \in 1..Len(s) : s[i] = t[i]

\* C19: within one createThread invocation the steps category check, BEGIN,
\* metadata insert, content write, COMMIT, audit event happen in that order,
\* each after the one before it succeeded: the content write is issued only
\* with the thread id the insert returned, COMMIT only after the content
\* write resolved, the audit event only after COMMIT resolved.
C19_SagaStepsInOrder ==
    \A p \in DOMAIN pc :
        IsCreate(p) =>
            /\ IsPrefix(SelectSeq(loc[p].steps, InSaga), SagaOrder)
            /\ pc[p] = "ct_begin" => Includes(loc[p].steps, "category")
            /\ pc[p] = "ct_insert" => Includes(loc[p].steps, "BEGIN")
            /\ pc[p] = "ct_post" =>
                  Includes(loc[p].steps, "INSERT") /\ loc[p].thread # NoId
            /\ pc[p] = "ct_commit" => Includes(loc[p].steps, "Post.create")
            /\ Includes(loc[p].steps, "audit") =>
                  Includes(loc[p].steps, "COMMIT") /\ loc[p].res = "ok"

\* C19 witness: a createThread ran all six steps while another one was
\* stopped by the failure of its content write.
C19_Witness ==
    \E p, q \in DOMAIN pc :
        /\ Ended(p) /\ IsCreate(p)
        /\ SelectSeq(loc[p].steps, InSaga) = SagaOrder
        /\ Ended(q) /\ IsCreate(q) /\ loc[q].why = "Post.create"
        /\ SelectSeq(loc[q].steps, InSaga) = <<"category", "BEGIN", "INSERT">>

\* the request names no category row, or one whose status is not 'active'
BadCategory(c) == c \notin DOMAIN Categories \/ Categories[c] # "active"

\* C20: a createThread whose categoryId names no row, or a row that is not
\* active, ends with NotFound once the category check answered, and before
\* that it has written nothing: no client acquired, no BEGIN, no row
\* inserted, no content document created, no audit event.
C20_BadCategoryWritesNothing ==
    \A p \in DOMAIN pc :
        (IsCreate(p) /\ BadCategory(loc[p].cat)) =>
            /\ loc[p].client = "none"
            /\ loc[p].thread = NoId /\ ~loc[p].wrote
            /\ IsPrefix(loc[p].steps, <<"category">>)
            /\ pc[p] \in {"ct_category", "done"}
            /\ (Ended(p) /\ loc[p].steps = <<"category">>) =>
                    loc[p].res = "NotFound"

\* C20 witness: a createThread in a missing category and one in an archived
\* category both ended with NotFound, and the stores are as they started.
C20_Witness ==
    /\ \E p, q \in DOMAIN pc :
          /\ Ended(p) /\ IsCreate(p) /\ loc[p].cat = "missing"
          /\ loc[p].res = "NotFound"
          /\ Ended(q) /\ IsCreate(q) /\ loc[q].cat = "archive"
          /\ loc[q].res = "NotFound"
    /\ DOMAIN threads = {SeedThread} /\ Len(posts) = 1
    /\ nextThreadId = 2 /\ nextPostId = 2

\* C21: a createThread that failed because its content write or its COMMIT
\* failed returns that store error to the caller, not an error raised by
\* ROLLBACK or by the delete of the content document.
C21_OriginalErrorReturned ==
    \A p \in DOMAIN pc :
        (Ended(p) /\ IsCreate(p) /\ loc[p].why \in {"Post.create", "COMMIT"}) =>
            loc[p].res = loc[p].why

\* C27: in every reachable state at most one content document carries a
\* given thread id, whatever the number of concurrent createThread
\* invocations and whichever of them fail and compensate.
C27_OneDocumentPerThread ==
    \A k, j \in 1..Len(posts) :
        posts[k].threadId = posts[j].threadId => k = j

\* C27 witness: two createThread invocations wrote their documents; one
\* committed, the other failed at COMMIT and its compensation did not
\* remove the document.
C27_Witness ==
    /\ Len(posts) = 3
    /\ \E p, q \in DOMAIN pc :
          /\ Ended(p) /\ IsCreate(p) /\ loc[p].res = "ok"
          /\ Ended(q) /\ IsCreate(q) /\ loc[q].why = "COMMIT"
          /\ DocsOf(loc[q].thread) # {} /\ DocsOf(loc[p].thread) # {}

----------------------------------------------------------------------------
(* SpecVote: concurrent upvoteThread and upvoteComment requests of alice   *)
(* and bob on the thread and on alice's comment; a store call may fail.    *)

VoteThreadReq(p) == StartUpvoteThread(p, Users, {SeedThread})
VoteCommentReq(p) == StartUpvoteComment(p, Users, {SeedThread}, {1})

InitVote == InitBusy /\ Slots(NVote)

NextVote ==
    \E p \in 1..NVote :
        \/ VoteThreadReq(p) \/ VoteCommentReq(p)
        \/ UT_FindOk(p) \/ UT_FindFail(p)
        \/ UT_SaveOk(p) \/ UT_SaveFail(p)
        \/ UC_FindOk(p) \/ UC_FindFail(p)
        \/ UC_SaveOk(p) \/ UC_SaveFail(p)

SpecVote == InitVote /\ [][NextVote]_vars

----------------------------------------------------------------------------
(* Properties of the vote toggle, checked under SpecVote.                  *)

VotedOk(p) == Ended(p) /\ IsVote(p) /\ loc[p].res = "ok"

SameTarget(p, q) ==
    /\ loc[p].op = loc[q].op
    /\ loc[p].tid = loc[q].tid
    /\ loc[p].cid = loc[q].cid

\* the change of the count a toggle by user makes on a target
Delta(target, user) == IF Includes(target.upvotedBy, user) THEN -1 ELSE 1

\* C4: in every reachable state originalPost.upvotes is the number of
\* entries of originalPost.upvotedBy, and every comment's upvotes is the
\* number of entries of its upvotedBy.
C4_CountEqualsVoters ==
    \A k \in 1..Len(posts) :
        /\ posts[k].originalPost.upvotes = Len(posts[k].originalPost.upvotedBy)
        /\ \A i \in 1..Len(posts[k].comments) :
              posts[k].comments[i].upvotes = Len(posts[k].comments[i].upvotedBy)

\* C5: when two toggles by different voters on the same target both read
\* the document before either saved, and both saved successfully, the
\* target after the second save reflects both toggles: the count moved by
\* both changes and each voter's membership is flipped.
C5_ConcurrentTogglesBothCount ==
    \A p, q \in DOMAIN pc :
        ( /\ VotedOk(p) /\ VotedOk(q) /\ SameTarget(p, q)
          /\ loc[p].user # loc[q].user
          /\ loc[p].readAt = loc[q].readAt
          /\ loc[p].savedAt = loc[p].readAt + 1
          /\ loc[q].savedAt = loc[p].readAt + 2 ) =>
            /\ loc[q].after.upvotes =
                   loc[p].snap.upvotes + Delta(loc[p].snap, loc[p].user)
                                       + Delta(loc[p].snap, loc[q].user)
            /\ Includes(loc[q].after.upvotedBy, loc[p].user)
                   = ~Includes(loc[p].snap.upvotedBy, loc[p].user)
            /\ Includes(loc[q].after.upvotedBy, loc[q].user)
                   = ~Includes(loc[p].snap.upvotedBy, loc[q].user)

\* C6: two consecutive successful toggles p, q by the same voter on the
\* same target, nothing saved in between or while either ran, restore the
\* count and the voter's membership to what they were before p; p reports
\* the opposite of the membership before it, q reports that membership.
C6_TwoTogglesRestore ==
    \A p, q \in DOMAIN pc :
        ( /\ VotedOk(p) /\ VotedOk(q) /\ SameTarget(p, q)
          /\ loc[p].user = loc[q].user
          /\ loc[p].savedAt = loc[p].readAt + 1
          /\ loc[q].readAt = loc[p].savedAt
          /\ loc[q].savedAt = loc[q].readAt + 1 ) =>
            LET was == Includes(loc[p].before.upvotedBy, loc[p].user)
            IN  /\ loc[q].after.upvotes = loc[p].before.upvotes
                /\ Includes(loc[q].after.upvotedBy, loc[p].user) = was
                /\ loc[p].out.upvoted = ~was
                /\ loc[q].out.upvoted = was

----------------------------------------------------------------------------
(* Properties of the reply counter.                                        *)

AddedOk(p) == Ended(p) /\ loc[p].op = "createComment" /\ loc[p].res = "ok"
DeletedOk(p) == Ended(p) /\ loc[p].op = "deleteComment" /\ loc[p].res = "ok"

\* the calls on the seed thread that succeeded
Adds == {p \in DOMAIN pc : AddedOk(p) /\ loc[p].tid = SeedThread}
Dels == {p \in DOMAIN pc : DeletedOk(p) /\ loc[p].tid = SeedThread}

\* commentCount of the content document: the comments not tombstoned
Live(doc) == {i \in 1..Len(doc.comments) : ~doc.comments[i].isDeleted}

\* C7 (SpecSeq): after N successful addComment and M successful
\* softDeleteComment calls on a fresh thread, run one after the other with
\* no store fault, reply_count is max(0, N - M).
C7_SequentialCount ==
    Quiet => threads[SeedThread].reply_count
                 = Max(0, Cardinality(Adds) - Cardinality(Dels))

\* C7 witness: two comments were added and then both were deleted.
C7_Witness ==
    /\ Quiet
    /\ Cardinality(Adds) = 2 /\ Cardinality(Dels) = 2
    /\ \A p \in Adds, q \in Dels : loc[p].cid <= 2 /\ loc[q].cid <= 2

\* C8 (SpecComment): in every reachable state, under any interleaving of
\* addComment and softDeleteComment and any store fault, reply_count of
\* every thread is at least zero.
C8_ReplyCountNonNegative ==
    \A t \in DOMAIN threads : threads[t].reply_count >= 0

\* C8 witness: a softDeleteComment succeeded on a thread whose counter was
\* never raised (the counter update of the addComment failed).
C8_Witness ==
    /\ Adds = {} /\ Dels # {}
    /\ \E p \in DOMAIN pc :
          /\ Ended(p) /\ loc[p].op = "createComment"
          /\ loc[p].wrote /\ loc[p].res = "StoreError"
    /\ threads[SeedThread].reply_count = 0

\* the comment write of the call was saved and its counter update failed
Drifted(p) ==
    /\ Ended(p) /\ loc[p].op \in {"createComment", "deleteComment"}
    /\ loc[p].wrote /\ loc[p].res # "ok"

\* the call failed before it wrote anything
FailedWhole(p) ==
    /\ Ended(p) /\ loc[p].op \in {"createComment", "deleteComment"}
    /\ ~loc[p].wrote /\ loc[p].res # "ok"

\* C23 (SpecComment): when the counter update of addComment or
\* softDeleteComment fails after the comment write succeeded, the outcome
\* the caller gets differs from success and from the outcome of every call
\* that failed without writing.
C23_DriftIsDistinguishable ==
    \A p, q \in DOMAIN pc :
        (Drifted(p) /\ FailedWhole(q)) => loc[p].res # loc[q].res

\* C9 (SpecConc): absent store faults, whenever no addComment or
\* softDeleteComment call is in flight, reply_count equals the number of
\* comments of the content document that are not tombstoned.
C9_QuiescentCountMatches ==
    Quiet => \A k \in 1..Len(posts) :
                posts[k].threadId \in DOMAIN threads =>
                    threads[posts[k].threadId].reply_count
                        = Cardinality(Live(posts[k]))

\* C10 (SpecAdd): concurrent addComment calls on a fresh thread raise
\* reply_count by one for each call that succeeded, so by K when all K
\* succeeded, and last_reply_by is then the author of one of them.
C10_ConcurrentAddsAllCounted ==
    /\ threads[SeedThread].reply_count = Cardinality(Adds)
    /\ Adds # {} =>
          threads[SeedThread].last_reply_by \in {loc[p].user : p \in Adds}
    /\ Adds = {} => threads[SeedThread].last_reply_by = "null"

\* C10 witness: all the calls succeeded and they overlapped: the author of
\* the first comment of the document was the last to update the counter.
C10_Witness ==
    /\ Cardinality(Adds) = Cardinality(DOMAIN pc)
    /\ threads[SeedThread].reply_count = Cardinality(DOMAIN pc)
    /\ LET doc == posts[FindOne(SeedThread)]
       IN  /\ Len(doc.comments) = Cardinality(DOMAIN pc)
           /\ doc.comments[1].authorId = threads[SeedThread].last_reply_by
           /\ \A i \in 2..Len(doc.comments) :
                 doc.comments[i].authorId # doc.comments[1].authorId

----------------------------------------------------------------------------
(* SpecSeq: createComment and deleteComment requests on a fresh thread,    *)
(* one after the other (a request starts when none is in flight), and no   *)
(* store call fails.                                                       *)

SeqCommentReq(p) ==
    Quiet /\ StartCreateComment(p, Users, {SeedThread}, {NoId})
SeqDeleteReq(p) ==
    Quiet /\ StartDeleteComment(p, Actors, {SeedThread}, CommentIds)

InitSeq == InitStore /\ Slots(NSeq)

NextSeq ==
    \E p \in 1..NSeq :
        \/ SeqCommentReq(p) \/ SeqDeleteReq(p)
        \/ CC_ThreadOk(p) \/ CC_PushOk(p) \/ CC_CountOk(p)
        \/ DC_FindOk(p) \/ DC_SaveOk(p) \/ DC_CountOk(p)

SpecSeq == InitSeq /\ [][NextSeq]_vars

----------------------------------------------------------------------------
(* SpecComment: concurrent createComment and deleteComment requests on a   *)
(* fresh thread; every store call may fail.                                *)

CommentReq(p) == StartCreateComment(p, Users, {SeedThread}, {NoId})
DeleteReq(p) == StartDeleteComment(p, Actors, {SeedThread}, CommentIds)

InitComment == InitStore /\ Slots(NComment)

NextComment ==
    \E p \in 1..NComment :
        \/ CommentReq(p) \/ DeleteReq(p)
        \/ CC_ThreadOk(p) \/ CC_ThreadFail(p)
        \/ CC_PushOk(p) \/ CC_PushFail(p)
        \/ CC_CountOk(p) \/ CC_CountFail(p)
        \/ DC_FindOk(p) \/ DC_FindFail(p)
        \/ DC_SaveOk(p) \/ DC_SaveFail(p)
        \/ DC_CountOk(p) \/ DC_CountFail(p)

SpecComment == InitComment /\ [][NextComment]_vars

----------------------------------------------------------------------------
(* SpecConc: concurrent createComment and deleteComment requests on the    *)
(* thread with two comments; no store call fails.                          *)

InitConc == InitBusy /\ Slots(NComment)

NextConc ==
    \E p \in 1..NComment :
        \/ CommentReq(p) \/ DeleteReq(p)
        \/ CC_ThreadOk(p) \/ CC_PushOk(p) \/ CC_CountOk(p)
        \/ DC_FindOk(p) \/ DC_SaveOk(p) \/ DC_CountOk(p)

SpecConc == InitConc /\ [][NextConc]_vars

----------------------------------------------------------------------------
(* SpecAdd: concurrent createComment requests on a fresh thread; no store  *)
(* call fails.                                                             *)

InitAdd == InitStore /\ Slots(NComment)

NextAdd ==
    \E p \in 1..NComment :
        \/ CommentReq(p)
        \/ CC_ThreadOk(p) \/ CC_PushOk(p) \/ CC_CountOk(p)

SpecAdd == InitAdd /\ [][NextAdd]_vars

----------------------------------------------------------------------------
(* SpecEdit: concurrent updateComment and deleteComment requests of every  *)
(* actor on alice's comment of the thread with two comments; no store call *)
(* fails.                                                                  *)
NEdit == 3

EditReq(p) == StartUpdateComment(p, Everyone, {SeedThread}, {1})
RemoveReq(p) == StartDeleteComment(p, Everyone, {SeedThread}, {1})

InitEdit == InitBusy /\ Slots(NEdit)

NextEdit ==
    \E p \in 1..NEdit :
        \/ EditReq(p) \/ RemoveReq(p)
        \/ UPD_FindOk(p) \/ UPD_SaveOk(p)
        \/ DC_FindOk(p) \/ DC_SaveOk(p) \/ DC_CountOk(p)

SpecEdit == InitEdit /\ [][NextEdit]_vars

\* the comment a request names, as stored now
Named(p) ==
    LET doc == posts[FindOne(loc[p].tid)]
    IN  doc.comments[CommentIdx(doc, loc[p].cid)]

\* a deleteComment on the comment has succeeded
Tombstoned(tid, cid) ==
    \E q \in DOMAIN pc : DeletedOk(q) /\ loc[q].tid = tid /\ loc[q].cid = cid

\* the comment of every deleteComment that succeeded reads as the placeholder
TombstonesKeepBody ==
    \A q \in DOMAIN pc :
        DeletedOk(q) => Named(q).isDeleted /\ Named(q).content = Deleted

\* an updateComment or deleteComment that looks the comment up after a
\* deleteComment on it succeeded ends with NotFound
LaterChangeNotFound ==
    \A p \in DOMAIN pc :
        ( /\ pc[p] \in {"upd_find", "dc_find"} /\ pc'[p] # pc[p]
          /\ Tombstoned(loc[p].tid, loc[p].cid) ) =>
            pc'[p] = "done" /\ loc'[p].res = "NotFound"

\* C11 (SpecEdit): once a softDeleteComment succeeded on a comment, every
\* later editComment and softDeleteComment on it fails with NotFound for
\* every actor, and in every later state the comment has isDeleted true and
\* the placeholder as its body.
C11_TombstoneIsPermanent ==
    [][LaterChangeNotFound]_vars /\ []TombstonesKeepBody

\* C12 (SpecEdit): in every reachable state, also when an editComment and a
\* softDeleteComment on one comment overlap, every comment with isDeleted
\* true has the placeholder as its body.
C12_DeletedReadsPlaceholder ==
    \A k \in 1..Len(posts) : \A i \in 1..Len(posts[k].comments) :
        posts[k].comments[i].isDeleted => posts[k].comments[i].content = Deleted

\* the comment named by the request exists and is not tombstoned
NamesLive(p) ==
    /\ FindOne(loc[p].tid) # 0
    /\ CommentIdx(posts[FindOne(loc[p].tid)], loc[p].cid) # 0
    /\ ~Named(p).isDeleted

\* the actor is the author of the comment, a moderator or an admin
Allowed(comment, user) ==
    comment.authorId = user \/ user \in Moderators \cup Admins

\* the lookup of an updateComment or deleteComment that finds the comment
\* live: it goes on to the save for an allowed actor, and ends with
\* Forbidden, both stores untouched, for any other
PermissionDecides(p) ==
    (pc[p] \in {"upd_find", "dc_find"} /\ pc'[p] # pc[p] /\ NamesLive(p)) =>
        IF Allowed(Named(p), loc[p].user)
        THEN pc'[p] = (IF pc[p] = "upd_find" THEN "upd_save" ELSE "dc_save")
        ELSE /\ pc'[p] = "done" /\ loc'[p].res = "Forbidden"
             /\ ~loc'[p].wrote
             /\ posts' = posts /\ threads' = threads

\* past the permission check the change is saved and the call succeeds
AllowedChangeSucceeds(p) ==
    /\ (pc[p] = "upd_save" /\ pc'[p] # pc[p]) =>
          /\ pc'[p] = "done" /\ loc'[p].res = "ok"
          /\ posts'[FindOne(loc[p].tid)].comments[loc[p].snap.idx].isEdited
    /\ (pc[p] = "dc_save" /\ pc'[p] # pc[p]) =>
          /\ pc'[p] = "dc_count"
          /\ posts'[FindOne(loc[p].tid)].comments[loc[p].snap.idx].isDeleted
    /\ (pc[p] = "dc_count" /\ pc'[p] # pc[p]) =>
          pc'[p] = "done" /\ loc'[p].res = "ok"

\* C17 (SpecEdit): editComment and softDeleteComment on an existing comment
\* that is not tombstoned fail with Forbidden, changing neither the
\* document nor reply_count, when the actor is neither the author of the
\* comment nor a moderator or admin; for the author, a moderator and an
\* admin they succeed.
C17_OnlyOwnerOrStaffChange ==
    [][\A p \in DOMAIN pc :
          PermissionDecides(p) /\ AllowedChangeSucceeds(p)]_vars

\* C17 witness: on alice's comment, bob's edit got Forbidden, the
\* moderator's edit succeeded and the admin's delete succeeded.
C17_Witness ==
    \E p, q, r \in DOMAIN pc :
        /\ Ended(p) /\ loc[p].op = "updateComment" /\ loc[p].user = "bob"
        /\ loc[p].res = "Forbidden"
        /\ Ended(q) /\ loc[q].op = "updateComment" /\ loc[q].user = "mod"
        /\ loc[q].res = "ok"
        /\ DeletedOk(r) /\ loc[r].user = "root"
        /\ threads[SeedThread].reply_count = 1

----------------------------------------------------------------------------
(* SpecLock: concurrent lockThread requests of a moderator and             *)
(* createComment requests of a user, a moderator and an admin on a fresh   *)
(* thread that a moderator has locked; no store call fails.                *)
NLock == 3

LockReq(p) == StartLockThread(p, Moderators, {SeedThread})
StaffCommentReq(p) ==
    StartCreateComment(p, {"bob"} \cup Moderators \cup Admins, {SeedThread},
                       {NoId})

\* the fresh thread after one lockThread
InitLocked ==
    /\ threads = [t \in {SeedThread} |->
                    [NewThreadRow("alice") EXCEPT !.is_locked = TRUE]]
    /\ posts = <<NewPost(1, SeedThread, "alice")>>
    /\ nextThreadId = 2
    /\ nextPostId = 2
    /\ nextCommentId = 1
    /\ users = UserRows
    /\ activity = <<>>

InitLock == InitLocked /\ Slots(NLock)

NextLock ==
    \E p \in 1..NLock :
        \/ LockReq(p) \/ StaffCommentReq(p)
        \/ LT_ToggleOk(p)
        \/ CC_ThreadOk(p) \/ CC_PushOk(p) \/ CC_CountOk(p)

SpecLock == InitLock /\ [][NextLock]_vars

\* the createComment in slot p reads a thread row that is locked
ReadsLocked(p) ==
    /\ pc[p] = "cc_thread" /\ pc'[p] # pc[p]
    /\ loc[p].tid \in DOMAIN threads
    /\ threads[loc[p].tid].is_locked

\* C13 (SpecLock): an addComment whose lock check reads is_locked = true
\* ends there with Forbidden, whatever the role of the actor, and leaves the
\* comments of the document and reply_count, last_reply_by of the row as
\* they were.
C13_LockedThreadRejects ==
    [][\A p \in DOMAIN pc :
          ReadsLocked(p) =>
              /\ pc'[p] = "done" /\ loc'[p].res = "Forbidden"
              /\ ~loc'[p].wrote /\ loc'[p].cid = NoId
              /\ posts' = posts /\ threads' = threads]_vars

\* C13 witness: the thread is locked, and a user, a moderator and an admin
\* each got Forbidden for a comment; nothing was added or counted.
C13_Witness ==
    /\ threads[SeedThread].is_locked
    /\ \A u \in {"bob", "mod", "root"} :
          \E p \in DOMAIN pc :
              /\ Ended(p) /\ loc[p].op = "createComment"
              /\ loc[p].user = u /\ loc[p].res = "Forbidden"
    /\ posts[FindOne(SeedThread)].comments = <<>>
    /\ threads[SeedThread].reply_count = 0
    /\ threads[SeedThread].last_reply_by = "null"

----------------------------------------------------------------------------
(* SpecReply: concurrent createComment requests that name a parent, on two *)
(* threads.  Thread 1 has alice's comment 1 and bob's comment 2, which bob *)
(* has deleted; thread 2 has alice's comment 3.  No store call fails.      *)
NReply == 3

SecondThread == 2

\* an ObjectId no comment has
UnknownId == 99

InitForum ==
    /\ threads = [t \in {SeedThread, SecondThread} |->
          IF t = SeedThread
          THEN CountAfterDelete(
                   CountAfterCreate(CountAfterCreate(NewThreadRow("alice"),
                                                     "alice"), "bob"))
          ELSE CountAfterCreate(NewThreadRow("alice"), "alice")]
    /\ posts = <<[NewPost(1, SeedThread, "alice") EXCEPT !.comments =
                    <<NewComment(1, "alice", NoId),
                      Tombstone(NewComment(2, "bob", NoId))>>],
                 [NewPost(2, SecondThread, "alice") EXCEPT !.comments =
                    <<NewComment(3, "alice", NoId)>>]>>
    /\ nextThreadId = 3
    /\ nextPostId = 3
    /\ nextCommentId = 4
    /\ users = UserRows
    /\ activity = <<>>

ReplyReq(p) ==
    StartCreateComment(p, {"alice"}, {SeedThread, SecondThread},
                       {2, 3, UnknownId})

InitReply == InitForum /\ Slots(NReply)

NextReply ==
    \E p \in 1..NReply :
        \/ ReplyReq(p)
        \/ CC_ThreadOk(p) \/ CC_ParentOk(p) \/ CC_PushOk(p) \/ CC_CountOk(p)

SpecReply == InitReply /\ [][NextReply]_vars

\* the id is the id of a comment of the document of the thread
InThread(tid, cid) ==
    \E k \in 1..Len(posts) :
        /\ posts[k].threadId = tid
        /\ \E i \in 1..Len(posts[k].comments) : posts[k].comments[i]._id = cid

IsReply(p) == loc[p].op = "createComment" /\ loc[p].parent # NoId

\* the parent check of the reply in slot p: it passes exactly when the
\* parent is in the document of the thread, and fails with NotFound, both
\* stores untouched, otherwise
ParentCheckDecides(p) ==
    (pc[p] = "cc_parent" /\ pc'[p] # pc[p]) =>
        IF InThread(loc[p].tid, loc[p].parent)
        THEN pc'[p] = "cc_push"
        ELSE /\ pc'[p] = "done" /\ loc'[p].res = "NotFound"
             /\ ~loc'[p].wrote
             /\ posts' = posts /\ threads' = threads

\* a reply that passed the parent check is appended with that parent and
\* ends with success
CheckedReplySucceeds(p) ==
    (IsReply(p) /\ pc[p] \in {"cc_push", "cc_count"} /\ pc'[p] # pc[p]) =>
        /\ pc[p] = "cc_push" =>
              LET k == FindOne(loc[p].tid)
              IN  /\ pc'[p] = "cc_count"
                  /\ Len(posts'[k].comments) = Len(posts[k].comments) + 1
                  /\ SubSeq(posts'[k].comments, 1, Len(posts[k].comments))
                         = posts[k].comments
                  /\ posts'[k].comments[Len(posts'[k].comments)]
                         .parentCommentId = loc[p].parent
        /\ pc[p] = "cc_count" => pc'[p] = "done" /\ loc'[p].res = "ok"

\* C14 (SpecReply): an addComment with a parentCommentId fails with
\* NotFound, appending nothing and leaving reply_count as it was, unless the
\* id is the id of a comment of the same thread's document; when it is, the
\* call succeeds, also when that comment is tombstoned.
C14_ParentMustBeInThread ==
    [][\A p \in DOMAIN pc :
          ParentCheckDecides(p) /\ CheckedReplySucceeds(p)]_vars

\* C14 witness: a reply to the tombstoned comment 2 of thread 1 succeeded,
\* a reply on thread 1 naming comment 3 of thread 2 and a reply naming an
\* unknown id got NotFound.
C14_Witness ==
    \E p, q, r \in DOMAIN pc :
        /\ AddedOk(p) /\ loc[p].tid = SeedThread /\ loc[p].parent = 2
        /\ Named(p).parentCommentId = 2
        /\ posts[FindOne(SeedThread)].comments[2].isDeleted
        /\ Ended(q) /\ IsReply(q) /\ loc[q].tid = SeedThread
        /\ loc[q].parent = 3 /\ loc[q].res = "NotFound"
        /\ Ended(r) /\ IsReply(r) /\ loc[r].parent = UnknownId
        /\ loc[r].res = "NotFound"
        /\ threads[SeedThread].reply_count = 2

----------------------------------------------------------------------------
(* SpecForum: every operation that touches a content document, run         *)
(* concurrently on the two threads of InitForum: replies and top-level     *)
(* comments, edit and delete of comment 1, votes on the post and on        *)
(* comment 1, updateThread and deleteThread of thread 1.  No store call    *)
(* fails.                                                                  *)
NForum == 2

ForumCommentReq(p) ==
    StartCreateComment(p, {"alice"}, {SeedThread, SecondThread}, {NoId, 1, 3})
ForumEditReq(p) == StartUpdateComment(p, {"alice"}, {SeedThread}, {1})
ForumRemoveReq(p) == StartDeleteComment(p, {"alice"}, {SeedThread}, {1})
ForumVoteReq(p) == StartUpvoteThread(p, {"bob"}, {SeedThread})
ForumVoteCommentReq(p) == StartUpvoteComment(p, {"bob"}, {SeedThread}, {1})
ForumUpdateReq(p) == StartUpdateThread(p, {"alice"}, {SeedThread})
ForumDeleteReq(p) == StartDeleteThread(p, Moderators, {SeedThread})

InitForumSlots == InitForum /\ Slots(NForum)

NextForum ==
    \E p \in 1..NForum :
        \/ ForumCommentReq(p) \/ ForumEditReq(p) \/ ForumRemoveReq(p)
        \/ ForumVoteReq(p) \/ ForumVoteCommentReq(p)
        \/ ForumUpdateReq(p) \/ ForumDeleteReq(p)
        \/ CC_ThreadOk(p) \/ CC_ParentOk(p) \/ CC_PushOk(p) \/ CC_CountOk(p)
        \/ UPD_FindOk(p) \/ UPD_SaveOk(p)
        \/ DC_FindOk(p) \/ DC_SaveOk(p) \/ DC_CountOk(p)
        \/ UT_FindOk(p) \/ UT_SaveOk(p)
        \/ UC_FindOk(p) \/ UC_SaveOk(p)
        \/ UTH_ThreadOk(p) \/ UTH_SetOk(p)
        \/ DT_ThreadOk(p) \/ DT_RowOk(p) \/ DT_PostOk(p)

SpecForum == InitForumSlots /\ [][NextForum]_vars

\* C15 (SpecForum): in every reachable state, every comment of a content
\* document whose parentCommentId is not null names the id of another
\* comment of the same document.
C15_ParentIsInSameDocument ==
    \A k \in 1..Len(posts) : \A i \in 1..Len(posts[k].comments) :
        posts[k].comments[i].parentCommentId # NoId =>
            \E j \in 1..Len(posts[k].comments) :
                /\ j # i
                /\ posts[k].comments[j]._id = posts[k].comments[i].parentCommentId

\* C15 witness: thread 2 holds a reply to its comment 3, and a reply naming
\* comment 3 on thread 1 got NotFound.
C15_Witness ==
    /\ \E k \in 1..Len(posts) :
          /\ posts[k].threadId = SecondThread
          /\ \E i \in 1..Len(posts[k].comments) :
                posts[k].comments[i].parentCommentId = 3
    /\ \E q \in DOMAIN pc :
          /\ Ended(q) /\ IsReply(q) /\ loc[q].tid = SeedThread
          /\ loc[q].parent = 3 /\ loc[q].res = "NotFound"

\* the position in ps of the document with the _id, 0 when it is gone
Position(ps, id) ==
    IF \E j \in 1..Len(ps) : ps[j]._id = id
    THEN CHOOSE j \in 1..Len(ps) : ps[j]._id = id
    ELSE 0

\* some createComment on the thread has its findOneAndUpdate resolve
Pushes(tid) ==
    \E p \in DOMAIN pc :
        pc[p] = "cc_push" /\ pc'[p] = "cc_count" /\ loc[p].tid = tid

\* one step keeps the comments of the document where they are: the ids of
\* the comments it had stay at their positions, and at most one comment is
\* added, at the end, by createComment
KeepsComments(old, new) ==
    /\ Len(new.comments) \in {Len(old.comments), Len(old.comments) + 1}
    /\ \A i \in 1..Len(old.comments) :
          new.comments[i]._id = old.comments[i]._id
    /\ Len(new.comments) = Len(old.comments) + 1 <=> Pushes(old.threadId)

\* C16 (SpecForum): while a content document exists its comments are
\* append-only: no step of addComment, editComment, softDeleteComment,
\* toggleUpvote or updateThread removes a comment or moves one, and a
\* step of addComment adds exactly one comment at the end.
C16_CommentsAppendOnly ==
    [][\A k \in 1..Len(posts) :
          Position(posts', posts[k]._id) # 0 =>
              KeepsComments(posts[k], posts'[Position(posts', posts[k]._id)])]_vars

\* C16 witness: thread 1 got a third comment, a reply to comment 1, behind
\* comments 1 and 2, and comment 1 was tombstoned where it is.
C16_Witness ==
    LET k == FindOne(SeedThread)
    IN  /\ k # 0
        /\ Len(posts[k].comments) = 3
        /\ posts[k].comments[1]._id = 1 /\ posts[k].comments[1].isDeleted
        /\ posts[k].comments[2]._id = 2
        /\ posts[k].comments[3].parentCommentId = 1

\* the document and the position of the comment slot p names
DocOf(p) == FindOne(loc[p].tid)
PlaceOf(p) == CommentIdx(posts[DocOf(p)], loc[p].cid)

\* the save of a deleteComment happens in this step
TombstoneSaved(p) == pc[p] = "dc_save" /\ pc'[p] = "dc_count"

\* the counter update of a deleteComment happens in this step
TombstoneCounted(p) ==
    pc[p] = "dc_count" /\ pc'[p] = "done" /\ loc'[p].res = "ok"

\* the rows of threads are what they were, but for reply_count of row tid
OnlyReplyCountChanges(tid) ==
    /\ DOMAIN threads' = DOMAIN threads
    /\ \A t \in DOMAIN threads :
          threads'[t] = IF t = tid
                        THEN [threads[t] EXCEPT
                                !.reply_count = threads'[t].reply_count]
                        ELSE threads[t]

EditSaved(p) == pc[p] = "upd_save" /\ pc'[p] = "done" /\ loc'[p].res = "ok"

\* C30 (SpecForum): a successful editComment changes only the body and
\* isEdited of the comment it names: isDeleted, parentCommentId, position
\* and votes of that comment, every other comment, the post and the rows
\* with reply_count and last_reply_by are untouched.
C30_EditChangesOnlyBody ==
    [][\A p \in DOMAIN pc :
          EditSaved(p) =>
              /\ threads' = threads
              /\ posts' = [posts EXCEPT
                     ![DocOf(p)].comments[PlaceOf(p)] =
                         [@ EXCEPT !.isEdited = TRUE, !.content = "edited"]]
      ]_vars

\* C30 witness: alice edited her comment 1 after bob had voted on it; the
\* comment keeps bob's vote and is not deleted, the counter is as before.
C30_Witness ==
    \E p \in DOMAIN pc :
        /\ Ended(p) /\ loc[p].op = "updateComment" /\ loc[p].res = "ok"
        /\ DocOf(p) # 0 /\ PlaceOf(p) = 1
        /\ Named(p).isEdited /\ Named(p).content = "edited"
        /\ ~Named(p).isDeleted
        /\ Named(p).upvotes = 1 /\ Named(p).upvotedBy = <<"bob">>
        /\ threads[SeedThread].reply_count = 1

\* a deleteThread of thread tid has answered success
Gone(tid) ==
    \E q \in DOMAIN pc :
        /\ Ended(q) /\ loc[q].op = "deleteThread"
        /\ loc[q].tid = tid /\ loc[q].res = "ok"

ThreadIds == {SeedThread, SecondThread}

\* neither the row nor a document of a deleted thread exists
GoneLeavesNothing ==
    \A t \in ThreadIds : Gone(t) => t \notin DOMAIN threads /\ DocsOf(t) = {}

\* slot p does the first lookup of a comment or vote operation in this step
FirstLookup(p) ==
    /\ pc[p] \in {"cc_thread", "upd_find", "dc_find", "ut_find", "uc_find"}
    /\ pc'[p] # pc[p]

\* C26 (SpecForum): once a deleteThread has answered success, neither the
\* metadata row nor a content document of that thread id exists in any
\* later state, and every addComment, editComment, softDeleteComment and
\* toggleUpvote that looks the thread up from then on ends with NotFound
\* and changes nothing.
C26_DeletedThreadStaysGone ==
    /\ []GoneLeavesNothing
    /\ [][\A p \in DOMAIN pc :
            (FirstLookup(p) /\ Gone(loc[p].tid)) =>
                /\ pc'[p] = "done" /\ loc'[p].res = "NotFound"
                /\ posts' = posts /\ threads' = threads]_vars

\* C26 witness: deleteThread of thread 1 answered success and a vote on
\* the post of thread 1 then got NotFound; thread 2 is untouched.
C26_Witness ==
    /\ Gone(SeedThread)
    /\ SeedThread \notin DOMAIN threads /\ DocsOf(SeedThread) = {}
    /\ \E p \in DOMAIN pc :
          /\ Ended(p) /\ loc[p].op = "upvoteThread"
          /\ loc[p].tid = SeedThread /\ loc[p].res = "NotFound"
    /\ SecondThread \in DOMAIN threads /\ DocsOf(SecondThread) # {}

----------------------------------------------------------------------------
(* SpecAudit: every operation that calls logActivity, run concurrently on  *)
(* the threads of InitForum; the ActivityLog write of each success is      *)
(* settled, stored or rejected, at any later moment.  No other store call  *)
(* fails.                                                                  *)
NAudit == 2

InitAudit == InitForum /\ Slots(NAudit)

NextAudit ==
    \E p \in 1..NAudit :
        \/ StartCreateThread(p)
        \/ ForumCommentReq(p) \/ ForumEditReq(p) \/ ForumRemoveReq(p)
        \/ ForumVoteReq(p) \/ ForumVoteCommentReq(p)
        \/ ForumUpdateReq(p) \/ ForumDeleteReq(p)
        \/ CT_CategoryOk(p) \/ CT_ConnectOk(p) \/ CT_BeginOk(p)
        \/ CT_InsertOk(p) \/ CT_PostOk(p) \/ CT_CommitOk(p)
        \/ CC_ThreadOk(p) \/ CC_ParentOk(p) \/ CC_PushOk(p) \/ CC_CountOk(p)
        \/ UPD_FindOk(p) \/ UPD_SaveOk(p)
        \/ DC_FindOk(p) \/ DC_SaveOk(p) \/ DC_CountOk(p)
        \/ UT_FindOk(p) \/ UT_SaveOk(p)
        \/ UC_FindOk(p) \/ UC_SaveOk(p)
        \/ UTH_ThreadOk(p) \/ UTH_SetOk(p)
        \/ DT_ThreadOk(p) \/ DT_RowOk(p) \/ DT_PostOk(p)
        \/ AuditOk(p) \/ AuditFail(p)

SpecAudit == InitAudit /\ [][NextAudit]_vars

\* the operations that record an activity
Audited ==
    {"createThread", "createComment", "updateComment", "deleteComment",
     "upvoteThread", "upvoteComment", "updateThread", "deleteThread"}

\* this step settles the audit write of slot p
AuditSettles(p) == loc[p].audit = "pending" /\ loc'[p].audit # "pending"

\* this step ends slot p with the success response
Succeeds(p) == pc[p] # "done" /\ pc'[p] = "done" /\ loc'[p].res = "ok"

\* C22 (SpecAudit): for every mutating operation, the audit write is only
\* started, never awaited, by the step that produces the success response,
\* and its later outcome, stored or failed, changes neither the response
\* of any invocation nor the metadata rows, content documents or users.
C22_AuditNeverChangesOutcome ==
    [][\A p \in DOMAIN pc :
          /\ AuditSettles(p) =>
                /\ UNCHANGED <<threads, posts, users, pc>>
                /\ \A q \in DOMAIN pc :
                      /\ loc'[q].res = loc[q].res
                      /\ loc'[q].out = loc[q].out
          /\ (Succeeds(p) /\ loc'[p].op \in Audited) =>
                /\ loc[p].audit = "none"
                /\ loc'[p].audit = "pending"]_vars

\* C22 witness: two operations answered success; the audit write of one
\* was stored, the audit write of the other was rejected.
C22_Witness ==
    \E p, q \in DOMAIN pc :
        /\ Ended(p) /\ loc[p].res = "ok" /\ loc[p].audit = "stored"
        /\ Ended(q) /\ loc[q].res = "ok" /\ loc[q].audit = "failed"
        /\ loc[q].op = "deleteThread" /\ loc[q].tid \notin DOMAIN threads
        /\ Len(activity) = 1

----------------------------------------------------------------------------
(* SpecBallot: votes on the post and on the comments of thread 1 of        *)
(* InitForum and on a thread id that names nothing, concurrent with the    *)
(* delete of comment 1 and with deleteThread.  No store call fails.        *)
NBallot == 3

\* a thread id of no row and no document
UnknownThread == 9

BallotPostReq(p) == StartUpvoteThread(p, {"bob"}, {SeedThread, UnknownThread})
BallotCommentReq(p) ==
    StartUpvoteComment(p, {"bob"}, {SeedThread, UnknownThread},
                       {1, 2, UnknownId})

InitBallot == InitForum /\ Slots(NBallot)

NextBallot ==
    \E p \in 1..NBallot :
        \/ BallotPostReq(p) \/ BallotCommentReq(p)
        \/ ForumRemoveReq(p) \/ ForumDeleteReq(p)
        \/ UT_FindOk(p) \/ UT_SaveOk(p)
        \/ UC_FindOk(p) \/ UC_SaveOk(p)
        \/ DC_FindOk(p) \/ DC_SaveOk(p) \/ DC_CountOk(p)
        \/ DT_ThreadOk(p) \/ DT_RowOk(p) \/ DT_PostOk(p)

SpecBallot == InitBallot /\ [][NextBallot]_vars

\* a document of thread tid holds a comment cid that is not tombstoned
HasLiveTarget(tid, cid) ==
    \E k \in DocsOf(tid) : \E i \in 1..Len(posts[k].comments) :
        /\ posts[k].comments[i]._id = cid
        /\ ~posts[k].comments[i].isDeleted

\* the vote of slot p does its lookup in this step, and the target is
\* missing: no document, no such comment, or a tombstoned comment
LooksUpMissing(p) ==
    \/ /\ pc[p] = "ut_find" /\ pc'[p] # pc[p]
       /\ DocsOf(loc[p].tid) = {}
    \/ /\ pc[p] = "uc_find" /\ pc'[p] # pc[p]
       /\ ~HasLiveTarget(loc[p].tid, loc[p].cid)

\* C24 (SpecBallot): a toggleUpvote whose lookup finds no document of the
\* thread, no comment with the id in the document, or a tombstoned target
\* comment ends there with NotFound and changes no count and no voter set.
C24_VoteOnMissingTargetNotFound ==
    [][\A p \in DOMAIN pc :
          LooksUpMissing(p) =>
              /\ pc'[p] = "done" /\ loc'[p].res = "NotFound"
              /\ ~loc'[p].wrote /\ loc'[p].audit = "none"
              /\ posts' = posts /\ threads' = threads]_vars

\* C24 witness: a vote on the tombstoned comment 2, a vote on a comment id
\* the document does not hold and a vote on a thread without document all
\* got NotFound, and no vote is recorded anywhere.
C24_Witness ==
    \E p, q, r \in DOMAIN pc :
        /\ Ended(p) /\ loc[p].op = "upvoteComment" /\ loc[p].cid = 2
        /\ loc[p].tid = SeedThread /\ loc[p].res = "NotFound"
        /\ Ended(q) /\ loc[q].op = "upvoteComment" /\ loc[q].cid = UnknownId
        /\ loc[q].tid = SeedThread /\ loc[q].res = "NotFound"
        /\ Ended(r) /\ loc[r].op = "upvoteThread"
        /\ loc[r].tid = UnknownThread /\ loc[r].res = "NotFound"
        /\ \A k \in 1..Len(posts) :
              /\ posts[k].originalPost.upvotes = 0
              /\ \A i \in 1..Len(posts[k].comments) :
                    /\ posts[k].comments[i].upvotes = 0
                    /\ posts[k].comments[i].upvotedBy = <<>>

----------------------------------------------------------------------------
(* SpecAbsent: comments added, edited and deleted on thread 1 of InitForum *)
(* and on a thread id that names nothing, with comment ids the document    *)
(* holds and one it does not, concurrent with deleteThread of thread 1.    *)
(* No store call fails.                                                    *)
NAbsent == 3

AbsentCommentReq(p) ==
    StartCreateComment(p, {"alice"}, {SeedThread, UnknownThread}, {NoId})
AbsentEditReq(p) ==
    StartUpdateComment(p, {"alice"}, {SeedThread, UnknownThread},
                       {1, UnknownId})
AbsentRemoveReq(p) ==
    StartDeleteComment(p, {"alice"}, {SeedThread, UnknownThread},
                       {1, UnknownId})

InitAbsent == InitForum /\ Slots(NAbsent)

NextAbsent ==
    \E p \in 1..NAbsent :
        \/ AbsentCommentReq(p) \/ AbsentEditReq(p) \/ AbsentRemoveReq(p)
        \/ ForumDeleteReq(p)
        \/ CC_ThreadOk(p) \/ CC_PushOk(p) \/ CC_CountOk(p)
        \/ UPD_FindOk(p) \/ UPD_SaveOk(p)
        \/ DC_FindOk(p) \/ DC_SaveOk(p) \/ DC_CountOk(p)
        \/ DT_ThreadOk(p) \/ DT_RowOk(p) \/ DT_PostOk(p)

SpecAbsent == InitAbsent /\ [][NextAbsent]_vars

\* a document of thread tid holds a comment with id cid
HasComment(tid, cid) ==
    \E k \in DocsOf(tid) : \E i \in 1..Len(posts[k].comments) :
        posts[k].comments[i]._id = cid

\* slot p does its lookup in this step and what it names is absent: the
\* metadata row for addComment, the content document or the comment id for
\* editComment and softDeleteComment
LooksUpAbsent(p) ==
    \/ /\ pc[p] = "cc_thread" /\ pc'[p] # pc[p]
       /\ loc[p].tid \notin DOMAIN threads
    \/ /\ pc[p] \in {"upd_find", "dc_find"} /\ pc'[p] # pc[p]
       /\ ~HasComment(loc[p].tid, loc[p].cid)

\* C25 (SpecAbsent): an addComment whose lookup finds no metadata row, and
\* an editComment or softDeleteComment whose lookup finds no content
\* document or no comment with the id, ends there with NotFound; no
\* document is modified and no reply_count changes.
C25_AbsentTargetNotFound ==
    [][\A p \in DOMAIN pc :
          LooksUpAbsent(p) =>
              /\ pc'[p] = "done" /\ loc'[p].res = "NotFound"
              /\ ~loc'[p].wrote /\ loc'[p].audit = "none"
              /\ posts' = posts /\ threads' = threads]_vars

\* C25 witness: an addComment on a thread without row, an editComment of
\* a comment id the document does not hold and a softDeleteComment on a
\* thread without document all got NotFound; documents and counters are
\* as they were at the start.
C25_Witness ==
    /\ \E p, q, r \in DOMAIN pc :
          /\ Ended(p) /\ loc[p].op = "createComment"
          /\ loc[p].tid = UnknownThread /\ loc[p].res = "NotFound"
          /\ Ended(q) /\ loc[q].op = "updateComment"
          /\ loc[q].tid = SeedThread /\ loc[q].cid = UnknownId
          /\ loc[q].res = "NotFound"
          /\ Ended(r) /\ loc[r].op = "deleteComment"
          /\ loc[r].tid = UnknownThread /\ loc[r].res = "NotFound"
    /\ Len(posts) = 2 /\ Len(posts[1].comments) = 2
    /\ ~posts[1].comments[1].isEdited /\ ~posts[1].comments[1].isDeleted
    /\ threads[SeedThread].reply_count = 1

----------------------------------------------------------------------------
(* SpecBan: an admin bans and unbans alice while alice, holding a token    *)
(* issued before any ban, sends votes on thread 1 through authenticate.    *)
(* The INSERT into user_bans may fail; no other store call does.           *)
NBan == 3

BanReq(p) == StartBanUser(p, {"alice"})
UnbanReq(p) == StartUnbanUser(p, {"alice"})
BannedVoteReq(p) ==
    StartAuthenticated(p, [IdleLoc EXCEPT !.op = "upvoteThread",
                                          !.user = "alice", !.tid = SeedThread])

InitBan == InitStore /\ Slots(NBan)

NextBan ==
    \E p \in 1..NBan :
        \/ BanReq(p) \/ UnbanReq(p) \/ BannedVoteReq(p)
        \/ BAN_TargetOk(p) \/ BAN_UpdateOk(p)
        \/ BAN_InsertOk(p) \/ BAN_InsertFail(p)
        \/ UNBAN_UpdateOk(p)
        \/ AUTH_Ok(p) \/ UT_FindOk(p) \/ UT_SaveOk(p)

SpecBan == InitBan /\ [][NextBan]_vars

\* a banUser of user u has answered success, and every unbanUser of u
\* requested so far had answered before that banUser was requested
BanStands(u) ==
    \E q \in DOMAIN pc :
        /\ Ended(q) /\ loc[q].op = "banUser" /\ loc[q].target = u
        /\ loc[q].res = "ok"
        /\ \A r \in DOMAIN pc :
              (loc[r].op = "unbanUser" /\ loc[r].target = u) =>
                  Ended(r) /\ loc[r].at < loc[q].from

\* C28 (SpecBan): from the moment banUser has answered success for a user
\* until an unbanUser of that user is requested, every request of the user
\* that reaches authenticate is rejected there, old token or not: the
\* handler behind it does not run and nothing is written.
C28_BannedUserIsRejected ==
    [][\A p \in DOMAIN pc :
          (pc[p] = "auth" /\ pc'[p] # "auth" /\ BanStands(loc[p].user)) =>
              /\ pc'[p] = "done" /\ loc'[p].res = "Banned"
              /\ ~loc'[p].wrote
              /\ UNCHANGED <<threads, posts, users>>]_vars

\* C28 witness: alice was banned; her vote, sent after banUser had
\* answered, was rejected by authenticate; after that she was unbanned,
\* and nothing of hers was recorded.
C28_Witness ==
    \E q, p, r \in DOMAIN pc :
        /\ Ended(q) /\ loc[q].op = "banUser" /\ loc[q].target = "alice"
        /\ loc[q].res = "ok"
        /\ Ended(p) /\ loc[p].op = "upvoteThread" /\ loc[p].user = "alice"
        /\ loc[p].res = "Banned"
        /\ loc[p].from >= loc[q].at
        /\ Ended(r) /\ loc[r].op = "unbanUser" /\ loc[r].res = "ok"
        /\ loc[r].from > loc[p].from
        /\ ~users["alice"].is_banned /\ users["alice"].bans = 1
        /\ posts[1].originalPost.upvotes = 0

----------------------------------------------------------------------------
(* Partial success of the comment operations, checked under SpecComment.   *)

\* the counter update of slot p rejects in this step
CounterFails(p) ==
    /\ pc[p] \in {"cc_count", "dc_count"}
    /\ pc'[p] = "done" /\ loc'[p].res # "ok"

\* after this step a document of the thread of slot p holds the comment the
\* slot wrote: appended by createComment, tombstoned by deleteComment
WriteStands(p) ==
    \E k \in 1..Len(posts') : \E i \in 1..Len(posts'[k].comments) :
        /\ posts'[k].threadId = loc[p].tid
        /\ posts'[k].comments[i]._id = loc[p].cid
        /\ pc[p] = "dc_count" => posts'[k].comments[i].isDeleted

\* C31 (SpecComment): when the counter update of addComment or
\* softDeleteComment fails after the document write succeeded, nothing is
\* undone: the appended comment stays in the document, the tombstoned
\* comment stays tombstoned, and reply_count keeps the value it had.
C31_FailedCounterUndoesNothing ==
    [][\A p \in DOMAIN pc :
          CounterFails(p) =>
              /\ loc'[p].wrote
              /\ posts' = posts /\ threads' = threads
              /\ WriteStands(p)]_vars

\* C31 witness: an addComment and the softDeleteComment of the comment it
\* appended both failed at their counter update; the comment is in the
\* document, tombstoned, and reply_count is still 0.
C31_Witness ==
    \E p, q \in DOMAIN pc :
        /\ Drifted(p) /\ loc[p].op = "createComment"
        /\ Drifted(q) /\ loc[q].op = "deleteComment"
        /\ loc[q].cid = loc[p].cid
        /\ Len(posts[1].comments) = 1
        /\ posts[1].comments[1]._id = loc[p].cid
        /\ posts[1].comments[1].isDeleted
        /\ threads[SeedThread].reply_count = 0

----------------------------------------------------------------------------
(* SpecEmit: createThread, createComment, updateComment, deleteComment and *)
(* the two votes, run concurrently on thread 1 of InitForum; every store   *)
(* call may fail.                                                          *)
NEmit == 2

EmitCommentReq(p) == StartCreateComment(p, {"alice"}, {SeedThread}, {NoId})

InitEmit == InitForum /\ Slots(NEmit)

NextEmit ==
    \E p \in 1..NEmit :
        \/ StartCreateThread(p) \/ EmitCommentReq(p)
        \/ ForumEditReq(p) \/ ForumRemoveReq(p)
        \/ ForumVoteReq(p) \/ ForumVoteCommentReq(p)
        \/ CT_CategoryOk(p) \/ CT_CategoryFail(p)
        \/ CT_ConnectOk(p) \/ CT_ConnectFail(p)
        \/ CT_BeginOk(p) \/ CT_BeginFail(p)
        \/ CT_InsertOk(p) \/ CT_InsertFail(p)
        \/ CT_PostOk(p) \/ CT_PostFail(p)
        \/ CT_CommitOk(p) \/ CT_CommitFail(p)
        \/ CT_RollbackOk(p) \/ CT_RollbackFail(p)
        \/ CT_CleanupOk(p) \/ CT_CleanupFail(p)
        \/ CC_ThreadOk(p) \/ CC_ThreadFail(p)
        \/ CC_PushOk(p) \/ CC_PushFail(p)
        \/ CC_CountOk(p) \/ CC_CountFail(p)
        \/ UPD_FindOk(p) \/ UPD_FindFail(p)
        \/ UPD_SaveOk(p) \/ UPD_SaveFail(p)
        \/ DC_FindOk(p) \/ DC_FindFail(p)
        \/ DC_SaveOk(p) \/ DC_SaveFail(p)
        \/ DC_CountOk(p) \/ DC_CountFail(p)
        \/ UT_FindOk(p) \/ UT_FindFail(p)
        \/ UT_SaveOk(p) \/ UT_SaveFail(p)
        \/ UC_FindOk(p) \/ UC_FindFail(p)
        \/ UC_SaveOk(p) \/ UC_SaveFail(p)

SpecEmit == InitEmit /\ [][NextEmit]_vars

\* the number of logActivity calls the invocation has made
Audits(l) == Cardinality({i \in 1..Len(l.steps) : l.steps[i] = "audit"})

\* C32 (SpecEmit): a createThread, addComment, editComment,
\* softDeleteComment or toggleUpvote records an activity only when all its
\* store writes have succeeded: an invocation that is still running or
\* that failed has recorded none, one that succeeded has recorded exactly
\* one.
C32_OneAuditPerSuccess ==
    \A p \in DOMAIN pc :
        IF Ended(p) /\ loc[p].res = "ok"
        THEN Audits(loc[p]) = 1 /\ loc[p].audit = "pending"
        ELSE Audits(loc[p]) = 0 /\ loc[p].audit = "none"

\* C32 witness: a softDeleteComment whose tombstone was saved and whose
\* counter update failed recorded no activity; a createThread that
\* succeeded recorded one.
C32_Witness ==
    \E p, q \in DOMAIN pc :
        /\ Drifted(p) /\ loc[p].op = "deleteComment" /\ Audits(loc[p]) = 0
        /\ Ended(q) /\ loc[q].op = "createThread" /\ loc[q].res = "ok"
        /\ Audits(loc[q]) = 1

----------------------------------------------------------------------------
(* SpecRead: getThread of thread 1 and of the thread a concurrent          *)
(* createThread makes, concurrent with deleteThread of thread 1.  COMMIT   *)
(* of createThread and the deleteOne of deleteThread may fail; no other    *)
(* store call does.                                                        *)
NRead == 2

ReadReq(p) == StartGetThread(p, {SeedThread, SecondThread})

InitRead == InitStore /\ Slots(NRead)

NextRead ==
    \E p \in 1..NRead :
        \/ ReadReq(p) \/ StartCreateThread(p) \/ ForumDeleteReq(p)
        \/ GT_ThreadOk(p) \/ GT_ViewOk(p) \/ GT_PostOk(p)
        \/ CT_CategoryOk(p) \/ CT_ConnectOk(p) \/ CT_BeginOk(p)
        \/ CT_InsertOk(p) \/ CT_PostOk(p)
        \/ CT_CommitOk(p) \/ CT_CommitFail(p)
        \/ CT_RollbackOk(p) \/ CT_CleanupOk(p)
        \/ DT_ThreadOk(p) \/ DT_RowOk(p) \/ DT_PostOk(p) \/ DT_PostFail(p)

SpecRead == InitRead /\ [][NextRead]_vars

\* a createThread has inserted the row of thread tid and not committed it
Uncommitted(tid) ==
    \E q \in DOMAIN pc :
        /\ loc[q].op = "createThread" /\ loc[q].thread = tid
        /\ pc[q] \in {"ct_post", "ct_commit"}

\* the getThread of slot p looks for the row in this step
ReadsRow(p) == pc[p] = "gt_thread" /\ pc'[p] # pc[p]

\* the getThread of slot p looks for the document in this step
ReadsDocument(p) == pc[p] = "gt_post" /\ pc'[p] # pc[p]

\* every getThread that answered success answers with a row and a document
\* of the thread it was asked for
AnswersAreWhole ==
    \A p \in DOMAIN pc :
        (Ended(p) /\ loc[p].op = "getThread" /\ loc[p].res = "ok") =>
            /\ loc[p].thread = loc[p].tid
            /\ loc[p].snap.id # NoId

\* C33 (SpecRead): getThread never answers success with thread metadata
\* and no content document: when it has seen the row and no document of
\* that id exists as it looks for one, it ends with NotFound; and a row
\* that is inserted but not committed is not seen: the getThread ends with
\* NotFound at the row lookup.
C33_ReadIsWholeOrNotFound ==
    /\ []AnswersAreWhole
    /\ [][\A p \in DOMAIN pc :
            /\ (ReadsDocument(p) /\ DocsOf(loc[p].thread) = {}) =>
                  pc'[p] = "done" /\ loc'[p].res = "NotFound"
            /\ (ReadsRow(p) /\ Uncommitted(loc[p].tid)) =>
                  pc'[p] = "done" /\ loc'[p].res = "NotFound"]_vars

\* C33 witness: a getThread of thread 1 saw the row, found no document
\* because deleteThread had removed row and document meanwhile, and got
\* NotFound.
C33_Witness ==
    \E p, q \in DOMAIN pc :
        /\ Ended(p) /\ loc[p].op = "getThread" /\ loc[p].thread = SeedThread
        /\ loc[p].res = "NotFound" /\ loc[p].snap.id = NoId
        /\ Ended(q) /\ loc[q].op = "deleteThread" /\ loc[q].res = "ok"
        /\ DocsOf(SeedThread) = {}

\* a getThread of thread 2 got NotFound while the createThread that makes
\* thread 2 has written the document and not committed
UncommittedRowUnseen ==
    \E q, r \in DOMAIN pc :
        /\ Ended(q) /\ loc[q].op = "getThread" /\ loc[q].tid = SecondThread
        /\ loc[q].res = "NotFound"
        /\ pc[r] = "ct_commit" /\ loc[r].thread = SecondThread
        /\ DocsOf(SecondThread) # {}

----------------------------------------------------------------------------
(* SpecToggle: moderators lock and pin thread 1 of InitForum and a thread  *)
(* id that names nothing, concurrently.  No store call fails.              *)
NToggle == 3

ToggleLockReq(p) == StartLockThread(p, Moderators, {SeedThread, UnknownThread})
TogglePinReq(p) == StartPinThread(p, Moderators, {SeedThread, UnknownThread})

InitToggle == InitForum /\ Slots(NToggle)

NextToggle ==
    \E p \in 1..NToggle :
        \/ ToggleLockReq(p) \/ TogglePinReq(p)
        \/ LT_ToggleOk(p) \/ PT_ToggleOk(p)

SpecToggle == InitToggle /\ [][NextToggle]_vars

\* slot p has answered success to a toggle op on thread tid
Toggles(op, tid) ==
    {p \in DOMAIN pc :
        Ended(p) /\ loc[p].op = op /\ loc[p].tid = tid /\ loc[p].res = "ok"}

Odd(n) == n % 2 = 1

\* the flags of thread 1 are those of the start, negated once per toggle
\* that succeeded: every second call restores the value
FlagsCountToggles ==
    /\ threads[SeedThread].is_locked =
           Odd(Cardinality(Toggles("lockThread", SeedThread)))
    /\ threads[SeedThread].is_pinned =
           Odd(Cardinality(Toggles("pinThread", SeedThread)))

\* the UPDATE of the toggle in slot p is executed in this step
TogglesNow(p) == pc[p] \in {"lt_toggle", "pt_toggle"} /\ pc'[p] # pc[p]

\* the rows after a toggle of the flag of slot p on an existing thread
RowsToggled(p) ==
    IF pc[p] = "lt_toggle"
    THEN [threads EXCEPT ![loc[p].tid].is_locked = ~@]
    ELSE [threads EXCEPT ![loc[p].tid].is_pinned = ~@]

\* the flag of slot p as stored after the step
FlagAfter(p) ==
    IF pc[p] = "lt_toggle" THEN threads'[loc[p].tid].is_locked
    ELSE threads'[loc[p].tid].is_pinned

\* C34 (SpecToggle): lockThread negates is_locked and pinThread negates
\* is_pinned of an existing thread in one step and answers with the new
\* value, changing no other column, no other row and no document; on a
\* thread id without row they end with NotFound and change nothing; two
\* calls restore the value the flag had.
C34_TogglesFlipOneFlag ==
    /\ []FlagsCountToggles
    /\ [][\A p \in DOMAIN pc :
            TogglesNow(p) =>
                /\ pc'[p] = "done" /\ posts' = posts
                /\ IF loc[p].tid \in DOMAIN threads
                   THEN /\ loc'[p].res = "ok"
                        /\ threads' = RowsToggled(p)
                        /\ loc'[p].flag = FlagAfter(p)
                   ELSE /\ loc'[p].res = "NotFound"
                        /\ threads' = threads]_vars

\* C34 witness: two lockThread calls on thread 1 answered true, then
\* false, and is_locked is false again; a pinThread answered true and
\* is_pinned is set; reply_count and last_reply_by are as at the start.
C34_Witness ==
    \E p, q, r \in DOMAIN pc :
        /\ p \in Toggles("lockThread", SeedThread) /\ loc[p].flag
        /\ q \in Toggles("lockThread", SeedThread) /\ ~loc[q].flag
        /\ r \in Toggles("pinThread", SeedThread) /\ loc[r].flag
        /\ ~threads[SeedThread].is_locked /\ threads[SeedThread].is_pinned
        /\ threads[SeedThread].reply_count = 1
        /\ threads[SeedThread].last_reply_by = "bob"

----------------------------------------------------------------------------
(* The lock check of createComment against lockThread, under SpecLock.     *)

\* the findOneAndUpdate of the createComment in slot p appends in this step
Appends(p) == pc[p] = "cc_push" /\ pc'[p] = "cc_count"

\* C35 (SpecLock): no comment is appended to the document of a thread at
\* a moment when is_locked of the thread is true, whatever the
\* interleaving of addComment and lockThread.
C35_NoAppendWhileLocked ==
    [][\A p \in DOMAIN pc :
          (Appends(p) /\ loc[p].tid \in DOMAIN threads) =>
              ~threads[loc[p].tid].is_locked]_vars

\* C36 (SpecConc): each comment lowers reply_count of its thread at most
\* once: of the softDeleteComment calls that name one comment id, also
\* overlapping ones, at most one succeeds.
C36_OneDecrementPerComment ==
    \A c \in CommentIds :
        Cardinality({p \in DOMAIN pc : DeletedOk(p) /\ loc[p].cid = c}) <= 1

\* the voter list holds nobody twice
NoDuplicates(voters) ==
    \A i, j \in 1..Len(voters) : voters[i] = voters[j] => i = j

\* C37 (SpecVote): in every reachable state no voter appears more than
\* once in upvotedBy of a post or of a comment, also when two toggleUpvote
\* calls of one voter on one target overlap.
C37_VotersAreDistinct ==
    \A k \in 1..Len(posts) :
        /\ NoDuplicates(posts[k].originalPost.upvotedBy)
        /\ \A i \in 1..Len(posts[k].comments) :
              NoDuplicates(posts[k].comments[i].upvotedBy)

----------------------------------------------------------------------------
(* The catch block of createThread, checked under SpecSaga.                *)

\* C38: a createThread that had written its content document returns an
\* error only from the step that issued the compensating Post.deleteOne,
\* whether COMMIT failed or ROLLBACK failed after it.
C38_CompensationIssued ==
    [][\A p \in DOMAIN pc :
          (/\ IsCreate(p) /\ loc[p].wrote
           /\ pc[p] # "done" /\ pc'[p] = "done"
           /\ loc'[p].res # "ok") => pc[p] = "ct_cleanup"]_vars

\* the invocation in slot p takes this step
Steps(p) == pc'[p] # pc[p] \/ loc'[p] # loc[p]

\* the documents that do not belong to thread tid, in store order
OthersOf(ps, tid) == SelectSeq(ps, LAMBDA d : d.threadId # tid)

\* C39: no step of a createThread invocation, failing ones included, changes
\* the row or the document of a thread other than the one whose id the
\* invocation generated; its catch block changes no row, removes at most
\* one document, and removes none when no thread id was generated.
C39_FailureTouchesOnlyOwnThread ==
    [][\A p \in DOMAIN pc :
          (Steps(p) /\ loc'[p].op = "createThread") =>
              /\ \A t \in DOMAIN threads \ {loc'[p].thread} :
                    t \in DOMAIN threads' /\ threads'[t] = threads[t]
              /\ OthersOf(posts', loc'[p].thread)
                    = OthersOf(posts, loc'[p].thread)
              /\ pc[p] \in {"ct_rollback", "ct_cleanup"} =>
                    /\ threads' = threads
                    /\ Len(posts') >= Len(posts) - 1
                    /\ loc[p].thread = NoId => posts' = posts]_vars

\* C39 witness: one createThread failed at its INSERT, ran the delete with
\* no thread id and left the seeded document in place; another failed at
\* COMMIT and its own document is gone.
C39_Witness ==
    \E p, q \in DOMAIN pc :
        /\ Ended(p) /\ IsCreate(p) /\ loc[p].why = "INSERT"
        /\ loc[p].thread = NoId /\ loc[p].res = "INSERT"
        /\ \E i \in 1..Len(loc[p].steps) : loc[p].steps[i] = "deleteOne"
        /\ Ended(q) /\ IsCreate(q) /\ loc[q].why = "COMMIT"
        /\ loc[q].wrote /\ loc[q].res = "COMMIT"
        /\ \E i \in 1..Len(loc[q].steps) : loc[q].steps[i] = "deleteOne"
        /\ OthersOf(posts, SeedThread) = <<>> /\ Len(posts) = 1
        /\ DOMAIN threads = {SeedThread}

=============================================================================
